---- MODULE Spec2Model ----
(***************************************************************************)
(* Model of the LLM inference client (src/llm_inference.py), of the JSON   *)
(* response parsers (src/parse.py, src/extract_thinker.py,                 *)
(* src/extract_thinker_local_llama.py, src/header_para_mapping.py), of the *)
(* chat prompt format (src/extract_thinker_sagemaker.py) and of the        *)
(* invoice extractors and the markdown header mapper                       *)
(* (src/header_para_mapping.py).                                           *)
(*                                                                         *)
(* Python values are records tagged by their type in field t.  Time is in  *)
(* whole seconds; elapsed stands for time.time() - start_time.             *)
(***************************************************************************)
EXTENDS Integers, Sequences, FiniteSets, TLC

VARIABLES
    pc,               \* position of the running call
    call,             \* entry point of the running call: "infer", "wait", "none"
    prompt,           \* infer's prompt argument
    use_async,        \* infer's use_async argument
    payload,          \* infer's local payload
    output_location,  \* infer's local output_location / wait's argument
    max_wait_time,    \* wait_for_async_result's argument
    elapsed,          \* time.time() - start_time inside wait_for_async_result
    nAsync,           \* invoke_endpoint_async requests sent by this call
    nSync,            \* invoke_endpoint requests sent by this call
    nWait,            \* calls of wait_for_async_result made by this call
    nPoll,            \* get_object requests sent by this call
    nSleep,           \* time.sleep(5) calls made by this call
    resp,             \* the last response the remote side gave to this call
    syncRet,          \* what invoke_sync_endpoint returned to this call
    waitRet,          \* what wait_for_async_result returned to this call
    exit,             \* the return statement that produced ret
    log,              \* the last logger.error / logger.warning message
    ret,              \* the value infer returned
    s3obj,            \* remote: the object at the output location
    jobAccepted,      \* remote: an asynchronous job was accepted
    prev,             \* return statement and value of the previous call
    p_pc,             \* position in extract_json_from_response
    p_arg,            \* extract_json_from_response's argument
    embedded,         \* the JSON value the argument was built around
    response,         \* extract_json_from_response's local response
    p_ret,            \* what extract_json_from_response returned
    json_str,         \* the JSON candidate cut out of the response
    b_pc,             \* position in batch_infer
    prompts,          \* batch_infer's prompts argument
    b_use_async,      \* batch_infer's use_async argument
    results,          \* batch_infer's local results
    b_i,              \* batch_infer's loop index i
    nDelay,           \* time.sleep(1) calls made by batch_infer
    f_pc,             \* position in _format_messages_for_llama
    messages,         \* _format_messages_for_llama's messages argument
    formatted_prompt, \* its local formatted_prompt
    f_k,              \* messages the for loop has gone through
    fields,           \* the fields of the LLMInference object
    thread,           \* per caller thread: the locals of its infer call
    store,            \* remote: the objects of the result bucket, by key
    jobs,             \* remote: the keys of the accepted asynchronous jobs
    x_pc,             \* position in extract_invoice_data
    extractor,        \* the class whose extract_invoice_data runs
    stages,           \* the methods extract_invoice_data has called, in order
    llm_response,     \* extract_invoice_data's local llm_response
    parsed_data,      \* its local parsed_data
    is_valid,         \* what validate_extracted_data said
    x_ret,            \* what extract_invoice_data returned
    x_log,            \* the last message extract_invoice_data logged
    m_pc,             \* position in the life of a HeaderParagraphMapper
    available,        \* the markdown libraries whose import succeeded
    parser_preference,\* the mapper's field parser_preference
    parser_type,      \* the mapper's field parser_type
    nSetup,           \* calls of _setup_parser
    dispatched,       \* what the last parse_with_library call did
    h_pc,             \* position in the life of a HeaderExtractor
    structure,        \* the HeaderExtractor's field structure
    current_section,  \* its field current_section
    content_buffer,   \* its field content_buffer
    events            \* the heading and paragraph calls made so far, in order

vars == << pc, call, prompt, use_async, payload, output_location,
           max_wait_time, elapsed, nAsync, nSync, nWait, nPoll, nSleep,
           resp, syncRet, waitRet, exit, log, ret, s3obj, jobAccepted,
           prev, p_pc, p_arg, embedded, response, p_ret, json_str,
           b_pc, prompts, b_use_async, results, b_i, nDelay,
           f_pc, messages, formatted_prompt, f_k,
           fields, thread, store, jobs,
           x_pc, extractor, stages, llm_response, parsed_data, is_valid, x_ret, x_log,
           m_pc, available, parser_preference, parser_type, nSetup, dispatched,
           h_pc, structure, current_section, content_buffer, events >>

clientVars == << pc, call, prompt, use_async, payload, output_location,
                 max_wait_time, elapsed, nAsync, nSync, nWait, nPoll, nSleep,
                 resp, syncRet, waitRet, exit, log, ret, prev >>

remoteVars == << s3obj, jobAccepted >>

parserVars == << p_pc, p_arg, embedded, response, p_ret, json_str >>

batchVars == << b_pc, prompts, b_use_async, results, b_i, nDelay >>

fmtVars == << f_pc, messages, formatted_prompt, f_k >>

concVars == << fields, thread, store, jobs >>

exVars == << x_pc, extractor, stages, llm_response, parsed_data, is_valid, x_ret, x_log >>

mapVars == << m_pc, available, parser_preference, parser_type, nSetup, dispatched >>

hdrVars == << h_pc, structure, current_section, content_buffer, events >>

hpmVars == << exVars, mapVars, hdrVars >>

\* the variables of header_para_mapping.py other than the extractor's
otherThanEx == << mapVars, hdrVars >>

\* and other than the mapper's
otherThanMap == << exVars, hdrVars >>

\* and other than the HeaderExtractor's
otherThanHdr == << exVars, mapVars >>

----------------------------------------------------------------------------
(* Bounds *)

MaxWait == 12        \* largest max_wait_time of a direct wait call
MaxReadDur == 1      \* longest duration of one get_object request
MaxBatch == 2        \* longest prompt list of a batch_infer call
MaxMessages == 3     \* longest message list of a chat
MaxEvents == 4       \* most heading and paragraph events of one document

(* Program constants *)

PollInterval == 5
DefaultMaxWait == 300
max_tokens == 2048

----------------------------------------------------------------------------
(* Python and JSON values *)

PyNone == [t |-> "none"]
PyStr(s) == [t |-> "str", s |-> s]
\* a str held as the sequence of its characters
PyChars(cs) == [t |-> "str", chars |-> cs]
PyNum(n) == [t |-> "num", n |-> n]
\* a JSON object; only its generated_text member is looked at
JDict(has, v) == [t |-> "dict", has |-> has, gt |-> v]
JList(elems) == [t |-> "list", elems |-> elems]
\* a body that json.loads rejects
BadJson == [t |-> "badjson"]
Absent == [t |-> "absent"]

Texts == {"", "hello", " hi\n"}
Prompts == {"p1", "p2"}

GoodEnvelopes ==
    {JList(<<JDict(TRUE, PyStr(s))>>) : s \in Texts}
      \cup {JDict(TRUE, PyStr(s)) : s \in Texts}

OddEnvelopes ==
    { JList(<< >>),
      JList(<<JDict(FALSE, PyNone)>>),
      JList(<<PyNum(5)>>),
      JList(<<JDict(TRUE, PyStr("hello")), JDict(TRUE, PyStr(""))>>),
      JDict(FALSE, PyNone),
      JDict(TRUE, PyNum(5)),
      JDict(TRUE, PyNone),
      PyNum(5),
      PyStr("hello"),
      PyNone }

Envelopes == GoodEnvelopes \cup OddEnvelopes
Bodies == Envelopes \cup {BadJson}

\* output locations, as character sequences
LocOk == << "s", "3", ":", "/", "/", "b", "/", "k" >>
LocNoKey == << "s", "3", ":", "/", "/", "b" >>
LocHttp == << "h", "t", "t", "p", ":", "/", "/", "b", "/", "k" >>
LocEmpty == << >>
Locations == {LocOk, LocNoKey, LocHttp, LocEmpty}

----------------------------------------------------------------------------
(* String helpers *)

\* str.startswith
StartsWith(s, p) == Len(s) >= Len(p) /\ SubSeq(s, 1, Len(p)) = p

\* s[n:]
DropFirst(s, n) == IF n >= Len(s) THEN << >> ELSE SubSeq(s, n + 1, Len(s))

\* str.find of one character, 0 when absent, else the 1-based index
FindChar(s, c) ==
    IF \E i \in 1..Len(s) : s[i] = c
    THEN CHOOSE i \in 1..Len(s) : s[i] = c /\ \A j \in 1..(i - 1) : s[j] # c
    ELSE 0

\* len(s.split(c, 1))
SplitOnceLen(s, c) == IF FindChar(s, c) = 0 THEN 1 ELSE 2

S3Prefix == << "s", "3", ":", "/", "/" >>

\* truth value of an Optional[str]
Truthy(v) == v.t = "str" /\ Len(v.chars) > 0

----------------------------------------------------------------------------
(* prepare_llama_payload *)

prepare_llama_payload(p) ==
    [ inputs |-> "<|begin_of_text|><|start_header_id|>system<|end_header_id|>\n\n"
                 \o "You are an expert at extracting structured data from invoices. "
                 \o "Extract the requested information accurately and return it as valid JSON."
                 \o "<|eot_id|><|start_header_id|>user<|end_header_id|>\n\n"
                 \o p
                 \o "<|eot_id|><|start_header_id|>assistant<|end_header_id|>\n\n",
      parameters |-> [ max_new_tokens |-> max_tokens,
                       temperature |-> "0.1",
                       top_p |-> "0.9",
                       do_sample |-> TRUE,
                       stop |-> << "<|eot_id|>" >>,
                       return_full_text |-> FALSE ] ]

NoPayload == [inputs |-> "", parameters |-> << >>]

----------------------------------------------------------------------------
(* Extraction of the generated text from a decoded response *)

\* dict.get('generated_text', '')
GetGeneratedText(d) == IF d.has THEN d.gt ELSE PyStr("")

LogNone == "none"
LogUnexpected == "Unexpected response format"
LogClientError == "AWS Client Error during endpoint invocation"
LogAsyncError == "Error invoking async endpoint"
LogSyncError == "Error invoking sync endpoint"
LogS3Error == "S3 error"
LogTimeout == "Timeout waiting for async result"
LogWaitError == "Error waiting for async result"
LogInvalidLocation == "Invalid S3 output location"
LogFallback == "Async endpoint failed, falling back to sync"

\* json.loads(response['Body'].read().decode()): the decoded value, or raised
DecodeBody(body) ==
    IF body = BadJson
    THEN [raised |-> TRUE, value |-> PyNone]
    ELSE [raised |-> FALSE, value |-> body]

\* SyncExtract that takes the first element only and has no branch for a
\* single object
SyncExtractListOnly(result) ==
    IF result.t = "list" /\ Len(result.elems) > 0
    THEN IF result.elems[1].t = "dict"
         THEN [raised |-> FALSE, exit |-> "sync_text", log |-> LogNone,
               ret |-> GetGeneratedText(result.elems[1])]
         ELSE [raised |-> TRUE, exit |-> "sync_exception", log |-> LogNone,
               ret |-> PyNone]
    ELSE [raised |-> FALSE, exit |-> "sync_unexpected",
          log |-> LogUnexpected, ret |-> PyNone]

\* invoke_sync_endpoint, the if/elif/else on the decoded result; raised
\* stands for the AttributeError of .get on something that is no dict
SyncExtract(result) ==
    IF result.t = "list" /\ Len(result.elems) > 0
    THEN IF result.elems[1].t = "dict"
         THEN [raised |-> FALSE, exit |-> "sync_text", log |-> LogNone,
               ret |-> GetGeneratedText(result.elems[1])]
         ELSE [raised |-> TRUE, exit |-> "sync_exception", log |-> LogNone,
               ret |-> PyNone]
    ELSE IF result.t = "dict"
    THEN [raised |-> FALSE, exit |-> "sync_text", log |-> LogNone,
          ret |-> GetGeneratedText(result)]
    ELSE [raised |-> FALSE, exit |-> "sync_unexpected",
          log |-> LogUnexpected, ret |-> PyNone]

\* WaitExtract that takes the first element only and has no branch for a
\* single object
WaitExtractListOnly(result) ==
    IF result.t = "list" /\ Len(result.elems) > 0
    THEN IF result.elems[1].t = "dict"
         THEN [raised |-> FALSE, exit |-> "wait_text", log |-> LogNone,
               ret |-> GetGeneratedText(result.elems[1])]
         ELSE [raised |-> TRUE, exit |-> "wait_exception", log |-> LogNone,
               ret |-> PyNone]
    ELSE [raised |-> FALSE, exit |-> "wait_unexpected",
          log |-> LogUnexpected, ret |-> PyNone]

\* wait_for_async_result, the if/elif/else on the decoded result
WaitExtract(result) ==
    IF result.t = "list" /\ Len(result.elems) > 0
    THEN IF result.elems[1].t = "dict"
         THEN [raised |-> FALSE, exit |-> "wait_text", log |-> LogNone,
               ret |-> GetGeneratedText(result.elems[1])]
         ELSE [raised |-> TRUE, exit |-> "wait_exception", log |-> LogNone,
               ret |-> PyNone]
    ELSE IF result.t = "dict"
    THEN [raised |-> FALSE, exit |-> "wait_text", log |-> LogNone,
          ret |-> GetGeneratedText(result)]
    ELSE [raised |-> FALSE, exit |-> "wait_unexpected",
          log |-> LogUnexpected, ret |-> PyNone]

----------------------------------------------------------------------------
(* Responses of the remote side *)

RespNone == [k |-> "none", body |-> PyNone]
RespClientError == [k |-> "client_error", body |-> PyNone]
RespOtherError == [k |-> "error", body |-> PyNone]
RespNoSuchKey == [k |-> "no_such_key", body |-> PyNone]
RespOk(b) == [k |-> "ok", body |-> b]

NoPrev == [exit |-> "none", ret |-> PyNone]

----------------------------------------------------------------------------
(* The LLMInference object and its caller threads *)

Threads == {"1", "2"}

\* the endpoint name the example constructs the object with
EndpointName == "your-sagemaker-endpoint-name"

\* no object has been constructed, no thread runs
NoFields == [endpoint_name |-> ""]
NoThreads == << >>

\* LLMInference(endpoint_name): the fields __init__ sets; the two boto3
\* clients stand for the remote side
NewFields(endpoint_name) ==
    [ endpoint_name |-> endpoint_name,
      region_name |-> "us-east-1",
      sagemaker_runtime |-> "sagemaker-runtime",
      s3_client |-> "s3",
      max_tokens |-> max_tokens,
      temperature |-> "0.1",
      top_p |-> "0.9" ]

----------------------------------------------------------------------------
Init ==
    /\ pc = "idle"
    /\ call = "none"
    /\ prompt = ""
    /\ use_async = FALSE
    /\ payload = NoPayload
    /\ output_location = PyNone
    /\ max_wait_time = 0
    /\ elapsed = 0
    /\ nAsync = 0
    /\ nSync = 0
    /\ nWait = 0
    /\ nPoll = 0
    /\ nSleep = 0
    /\ resp = RespNone
    /\ syncRet = PyNone
    /\ waitRet = PyNone
    /\ exit = "none"
    /\ log = LogNone
    /\ ret = PyNone
    /\ s3obj = Absent
    /\ jobAccepted = FALSE
    /\ prev = NoPrev
    /\ p_pc = "off"
    /\ p_arg = << >>
    /\ embedded = [kind |-> "none", obj |-> PyNone]
    /\ response = << >>
    /\ p_ret = PyNone
    /\ json_str = << >>
    /\ b_pc = "off"
    /\ prompts = << >>
    /\ b_use_async = FALSE
    /\ results = << >>
    /\ b_i = 0
    /\ nDelay = 0
    /\ f_pc = "off"
    /\ messages = << >>
    /\ formatted_prompt = ""
    /\ f_k = 0
    /\ fields = NewFields(EndpointName)
    /\ thread = NoThreads
    /\ store = << >>
    /\ jobs = {}
    /\ x_pc = "off"
    /\ extractor = "none"
    /\ stages = << >>
    /\ llm_response = PyNone
    /\ parsed_data = PyNone
    /\ is_valid = FALSE
    /\ x_ret = PyNone
    /\ x_log = LogNone
    /\ m_pc = "off"
    /\ available = {}
    /\ parser_preference = "unset"
    /\ parser_type = "unset"
    /\ nSetup = 0
    /\ dispatched = [method |-> "none", markdown_text |-> ""]
    /\ h_pc = "off"
    /\ structure = << >>
    /\ current_section = PyNone
    /\ content_buffer = << >>
    /\ events = << >>

\* the locals of a call that has just started
FreshCall ==
    /\ elapsed' = 0
    /\ nAsync' = 0
    /\ nSync' = 0
    /\ nWait' = 0
    /\ nPoll' = 0
    /\ nSleep' = 0
    /\ resp' = RespNone
    /\ syncRet' = PyNone
    /\ waitRet' = PyNone
    /\ exit' = "none"
    /\ log' = LogNone
    /\ ret' = PyNone

\* a return statement of wait_for_async_result
WaitFinish(e, l, v) ==
    /\ pc' = "wait_returned"
    /\ exit' = e
    /\ log' = l
    /\ waitRet' = v

----------------------------------------------------------------------------
(* infer *)

\* Infer that takes the asynchronous path whatever use_async says
InferAlwaysAsync(p, ua) ==
    /\ pc = "idle"
    /\ call' = "infer"
    /\ prompt' = p
    /\ use_async' = ua
    /\ payload' = prepare_llama_payload(p)
    /\ output_location' = PyNone
    /\ max_wait_time' = 0
    /\ FreshCall
    /\ pc' = "invoke_async"
    /\ UNCHANGED << s3obj, jobAccepted, prev >>
    /\ UNCHANGED << parserVars, batchVars, fmtVars, concVars, hpmVars >>

\* infer(prompt, use_async): the payload is prepared, then the branch on
\* use_async
Infer(p, ua) ==
    /\ pc = "idle"
    /\ call' = "infer"
    /\ prompt' = p
    /\ use_async' = ua
    /\ payload' = prepare_llama_payload(p)
    /\ output_location' = PyNone
    /\ max_wait_time' = 0
    /\ FreshCall
    /\ pc' = IF ua THEN "invoke_async" ELSE "invoke_sync"
    /\ UNCHANGED << s3obj, jobAccepted, prev >>
    /\ UNCHANGED << parserVars, batchVars, fmtVars, concVars, hpmVars >>

\* invoke_async_endpoint: one invoke_endpoint_async request; o is the remote
\* side's answer
invoke_async_endpoint(o) ==
    /\ pc = "invoke_async"
    /\ nAsync' = nAsync + 1
    /\ resp' = o
    /\ \/ /\ o.k = "ok"
          /\ output_location' = o.body
          /\ jobAccepted' = TRUE
          /\ log' = log
       \/ /\ o.k = "client_error"
          /\ output_location' = PyNone
          /\ log' = LogClientError
          /\ UNCHANGED jobAccepted
       \/ /\ o.k = "error"
          /\ output_location' = PyNone
          /\ log' = LogAsyncError
          /\ UNCHANGED jobAccepted
    /\ pc' = "infer_branch"
    /\ UNCHANGED << call, prompt, use_async, payload, max_wait_time, elapsed,
                    nSync, nWait, nPoll, nSleep, syncRet, waitRet, exit, ret,
                    s3obj, prev >>
    /\ UNCHANGED << parserVars, batchVars, fmtVars, concVars, hpmVars >>

\* InferBranch that tests the location against None, so that an empty
\* location is waited for
InferBranchNotNone ==
    /\ pc = "infer_branch"
    /\ IF output_location # PyNone
       THEN /\ pc' = "wait_enter"
            /\ max_wait_time' = DefaultMaxWait
            /\ log' = log
       ELSE /\ pc' = "invoke_sync"
            /\ max_wait_time' = max_wait_time
            /\ log' = LogFallback
    /\ UNCHANGED << call, prompt, use_async, payload, output_location, elapsed,
                    nAsync, nSync, nWait, nPoll, nSleep, resp, syncRet,
                    waitRet, exit, ret, s3obj, jobAccepted, prev >>
    /\ UNCHANGED << parserVars, batchVars, fmtVars, concVars, hpmVars >>

\* InferBranch that submits a second time before it falls back
InferBranchRetry ==
    /\ pc = "infer_branch"
    /\ IF Truthy(output_location)
       THEN /\ pc' = "wait_enter"
            /\ max_wait_time' = DefaultMaxWait
            /\ log' = log
       ELSE IF nAsync < 2
       THEN /\ pc' = "invoke_async"
            /\ max_wait_time' = max_wait_time
            /\ log' = log
       ELSE /\ pc' = "invoke_sync"
            /\ max_wait_time' = max_wait_time
            /\ log' = LogFallback
    /\ UNCHANGED << call, prompt, use_async, payload, output_location, elapsed,
                    nAsync, nSync, nWait, nPoll, nSleep, resp, syncRet,
                    waitRet, exit, ret, s3obj, jobAccepted, prev >>
    /\ UNCHANGED << parserVars, batchVars, fmtVars, concVars, hpmVars >>

\* infer, the branch on output_location
InferBranch ==
    /\ pc = "infer_branch"
    /\ IF Truthy(output_location)
       THEN /\ pc' = "wait_enter"
            /\ max_wait_time' = DefaultMaxWait
            /\ log' = log
       ELSE /\ pc' = "invoke_sync"
            /\ max_wait_time' = max_wait_time
            /\ log' = LogFallback
    /\ UNCHANGED << call, prompt, use_async, payload, output_location, elapsed,
                    nAsync, nSync, nWait, nPoll, nSleep, resp, syncRet,
                    waitRet, exit, ret, s3obj, jobAccepted, prev >>
    /\ UNCHANGED << parserVars, batchVars, fmtVars, concVars, hpmVars >>

\* invoke_sync_endpoint, from the response o on: the return statement
\* taken, the value returned and the message logged
SyncResult(o) ==
    LET j == DecodeBody(o.body)
        x == SyncExtract(j.value)
    IN  IF o.k = "client_error"
        THEN [exit |-> "sync_client_error", log |-> LogClientError,
              ret |-> PyNone]
        ELSE IF o.k = "error" \/ j.raised \/ x.raised
        THEN [exit |-> "sync_exception", log |-> LogSyncError,
              ret |-> PyNone]
        ELSE [exit |-> x.exit, ret |-> x.ret,
              log |-> IF x.log = LogNone THEN log ELSE x.log]

\* invoke_sync_endpoint that sends the request again after a ClientError
invoke_sync_endpoint_retry(o) ==
    /\ pc = "invoke_sync"
    /\ nSync' = nSync + 1
    /\ resp' = o
    /\ LET r == SyncResult(o)
       IN  /\ pc' = IF o.k = "client_error" /\ nSync = 0
                    THEN "invoke_sync" ELSE "sync_returned"
           /\ exit' = r.exit
           /\ log' = r.log
           /\ syncRet' = r.ret
    /\ UNCHANGED << call, prompt, use_async, payload, output_location,
                    max_wait_time, elapsed, nAsync, nWait, nPoll, nSleep,
                    waitRet, ret, s3obj, jobAccepted, prev >>
    /\ UNCHANGED << parserVars, batchVars, fmtVars, concVars, hpmVars >>

\* invoke_sync_endpoint: one invoke_endpoint request, then the decoding of
\* its body
invoke_sync_endpoint(o) ==
    /\ pc = "invoke_sync"
    /\ nSync' = nSync + 1
    /\ resp' = o
    /\ LET r == SyncResult(o)
       IN  /\ pc' = "sync_returned"
           /\ exit' = r.exit
           /\ log' = r.log
           /\ syncRet' = r.ret
    /\ UNCHANGED << call, prompt, use_async, payload, output_location,
                    max_wait_time, elapsed, nAsync, nWait, nPoll, nSleep,
                    waitRet, ret, s3obj, jobAccepted, prev >>
    /\ UNCHANGED << parserVars, batchVars, fmtVars, concVars, hpmVars >>

\* InferReturn that falls back to the synchronous call when the wait gave
\* nothing
InferReturnFallback ==
    /\ call = "infer"
    /\ \/ /\ pc = "wait_returned"
          /\ waitRet # PyNone
          /\ ret' = waitRet
          /\ pc' = "done"
       \/ /\ pc = "wait_returned"
          /\ waitRet = PyNone
          /\ ret' = ret
          /\ pc' = "invoke_sync"
       \/ /\ pc = "sync_returned"
          /\ ret' = syncRet
          /\ pc' = "done"
    /\ UNCHANGED << call, prompt, use_async, payload, output_location,
                    max_wait_time, elapsed, nAsync, nSync, nWait, nPoll,
                    nSleep, resp, syncRet, waitRet, exit, log, s3obj,
                    jobAccepted, prev >>
    /\ UNCHANGED << parserVars, batchVars, fmtVars, concVars, hpmVars >>

\* infer, the return statements: what the function called last returned
InferReturn ==
    /\ call = "infer"
    /\ \/ /\ pc = "wait_returned"
          /\ ret' = waitRet
       \/ /\ pc = "sync_returned"
          /\ ret' = syncRet
    /\ pc' = "done"
    /\ UNCHANGED << call, prompt, use_async, payload, output_location,
                    max_wait_time, elapsed, nAsync, nSync, nWait, nPoll,
                    nSleep, resp, syncRet, waitRet, exit, log, s3obj,
                    jobAccepted, prev >>
    /\ UNCHANGED << parserVars, batchVars, fmtVars, concVars, hpmVars >>

----------------------------------------------------------------------------
(* wait_for_async_result *)

\* a direct call wait_for_async_result(loc, T)
WaitCall(loc, T) ==
    /\ pc = "idle"
    /\ call' = "wait"
    /\ prompt' = ""
    /\ use_async' = FALSE
    /\ payload' = NoPayload
    /\ output_location' = PyChars(loc)
    /\ max_wait_time' = T
    /\ FreshCall
    /\ pc' = "wait_enter"
    /\ UNCHANGED << s3obj, jobAccepted, prev >>
    /\ UNCHANGED << parserVars, batchVars, fmtVars, concVars, hpmVars >>

\* WaitEnter that takes a location without '/key' as a bucket with the
\* empty key
WaitEnterEmptyKey ==
    /\ pc = "wait_enter"
    /\ nWait' = nWait + 1
    /\ elapsed' = 0
    /\ IF ~StartsWith(output_location.chars, S3Prefix)
       THEN WaitFinish("wait_invalid_location", LogInvalidLocation, PyNone)
       ELSE /\ pc' = "wait_loop"
            /\ UNCHANGED << exit, log, waitRet >>
    /\ UNCHANGED << call, prompt, use_async, payload, output_location,
                    max_wait_time, nAsync, nSync, nPoll, nSleep, resp,
                    syncRet, ret, s3obj, jobAccepted, prev >>
    /\ UNCHANGED << parserVars, batchVars, fmtVars, concVars, hpmVars >>

\* the check of the location, the split into bucket and key, start_time
WaitEnter ==
    /\ pc = "wait_enter"
    /\ nWait' = nWait + 1
    /\ elapsed' = 0
    /\ IF ~StartsWith(output_location.chars, S3Prefix)
       THEN WaitFinish("wait_invalid_location", LogInvalidLocation, PyNone)
       ELSE IF SplitOnceLen(DropFirst(output_location.chars, 5), "/") # 2
       THEN WaitFinish("wait_exception", LogWaitError, PyNone)
       ELSE /\ pc' = "wait_loop"
            /\ UNCHANGED << exit, log, waitRet >>
    /\ UNCHANGED << call, prompt, use_async, payload, output_location,
                    max_wait_time, nAsync, nSync, nPoll, nSleep, resp,
                    syncRet, ret, s3obj, jobAccepted, prev >>
    /\ UNCHANGED << parserVars, batchVars, fmtVars, concVars, hpmVars >>

\* what get_object can answer in the current remote state
ReadOutcomes ==
    {RespClientError, RespOtherError}
      \cup (IF s3obj = Absent THEN {RespNoSuchKey} ELSE {RespOk(s3obj)})

\* WaitPoll that retries after every ClientError, whatever its code
WaitPollRetryAll(o, d) ==
    /\ pc = "wait_loop"
    /\ elapsed < max_wait_time
    /\ o \in ReadOutcomes
    /\ nPoll' = nPoll + 1
    /\ elapsed' = elapsed + d
    /\ resp' = o
    /\ IF o.k \in {"no_such_key", "client_error"}
       THEN /\ pc' = "wait_sleep"
            /\ UNCHANGED << exit, log, waitRet >>
       ELSE LET j == DecodeBody(o.body)
                x == WaitExtract(j.value)
            IN  IF o.k = "error" \/ j.raised \/ x.raised
                THEN WaitFinish("wait_exception", LogWaitError, PyNone)
                ELSE WaitFinish(x.exit, IF x.log = LogNone THEN log ELSE x.log,
                                x.ret)
    /\ UNCHANGED << call, prompt, use_async, payload, output_location,
                    max_wait_time, nAsync, nSync, nWait, nSleep, syncRet, ret,
                    s3obj, jobAccepted, prev >>
    /\ UNCHANGED << parserVars, batchVars, fmtVars, concVars, hpmVars >>

\* WaitPoll that deletes the result object once it has read it
WaitPollDelete(o, d) ==
    /\ pc = "wait_loop"
    /\ elapsed < max_wait_time
    /\ o \in ReadOutcomes
    /\ nPoll' = nPoll + 1
    /\ elapsed' = elapsed + d
    /\ resp' = o
    /\ s3obj' = IF o.k = "ok" THEN Absent ELSE s3obj
    /\ IF o.k = "no_such_key"
       THEN /\ pc' = "wait_sleep"
            /\ UNCHANGED << exit, log, waitRet >>
       ELSE IF o.k = "client_error"
       THEN WaitFinish("wait_s3_error", LogS3Error, PyNone)
       ELSE LET j == DecodeBody(o.body)
                x == WaitExtract(j.value)
            IN  IF o.k = "error" \/ j.raised \/ x.raised
                THEN WaitFinish("wait_exception", LogWaitError, PyNone)
                ELSE WaitFinish(x.exit, IF x.log = LogNone THEN log ELSE x.log,
                                x.ret)
    /\ UNCHANGED << call, prompt, use_async, payload, output_location,
                    max_wait_time, nAsync, nSync, nWait, nSleep, syncRet, ret,
                    jobAccepted, prev >>
    /\ UNCHANGED << parserVars, batchVars, fmtVars, concVars, hpmVars >>

\* WaitPoll that reads once before it tests the time
WaitPollFirst(o, d) ==
    /\ pc = "wait_loop"
    /\ elapsed < max_wait_time \/ nPoll = 0
    /\ o \in ReadOutcomes
    /\ nPoll' = nPoll + 1
    /\ elapsed' = elapsed + d
    /\ resp' = o
    /\ IF o.k = "no_such_key"
       THEN /\ pc' = "wait_sleep"
            /\ UNCHANGED << exit, log, waitRet >>
       ELSE IF o.k = "client_error"
       THEN WaitFinish("wait_s3_error", LogS3Error, PyNone)
       ELSE LET j == DecodeBody(o.body)
                x == WaitExtract(j.value)
            IN  IF o.k = "error" \/ j.raised \/ x.raised
                THEN WaitFinish("wait_exception", LogWaitError, PyNone)
                ELSE WaitFinish(x.exit, IF x.log = LogNone THEN log ELSE x.log,
                                x.ret)
    /\ UNCHANGED << call, prompt, use_async, payload, output_location,
                    max_wait_time, nAsync, nSync, nWait, nSleep, syncRet, ret,
                    s3obj, jobAccepted, prev >>
    /\ UNCHANGED << parserVars, batchVars, fmtVars, concVars, hpmVars >>

\* one pass of the while loop: the loop condition holds, get_object is
\* requested and takes d seconds, its answer o is handled
WaitPoll(o, d) ==
    /\ pc = "wait_loop"
    /\ elapsed < max_wait_time
    /\ o \in ReadOutcomes
    /\ nPoll' = nPoll + 1
    /\ elapsed' = elapsed + d
    /\ resp' = o
    /\ IF o.k = "no_such_key"
       THEN /\ pc' = "wait_sleep"
            /\ UNCHANGED << exit, log, waitRet >>
       ELSE IF o.k = "client_error"
       THEN WaitFinish("wait_s3_error", LogS3Error, PyNone)
       ELSE LET j == DecodeBody(o.body)
                x == WaitExtract(j.value)
            IN  IF o.k = "error" \/ j.raised \/ x.raised
                THEN WaitFinish("wait_exception", LogWaitError, PyNone)
                ELSE WaitFinish(x.exit, IF x.log = LogNone THEN log ELSE x.log,
                                x.ret)
    /\ UNCHANGED << call, prompt, use_async, payload, output_location,
                    max_wait_time, nAsync, nSync, nWait, nSleep, syncRet, ret,
                    s3obj, jobAccepted, prev >>
    /\ UNCHANGED << parserVars, batchVars, fmtVars, concVars, hpmVars >>

\* a sleep of one second
SleepTimeShort == PollInterval - 4

\* how long the sleep after a 'not found' lasts
SleepTime == PollInterval

\* time.sleep(5); continue
WaitSleep ==
    /\ pc = "wait_sleep"
    /\ nSleep' = nSleep + 1
    /\ elapsed' = elapsed + SleepTime
    /\ pc' = "wait_loop"
    /\ UNCHANGED << call, prompt, use_async, payload, output_location,
                    max_wait_time, nAsync, nSync, nWait, nPoll, resp, syncRet,
                    waitRet, exit, log, ret, s3obj, jobAccepted, prev >>
    /\ UNCHANGED << parserVars, batchVars, fmtVars, concVars, hpmVars >>

\* WaitTimeout that logs the generic error message
WaitTimeoutGeneric ==
    /\ pc = "wait_loop"
    /\ ~(elapsed < max_wait_time)
    /\ WaitFinish("wait_timeout", LogWaitError, PyNone)
    /\ UNCHANGED << call, prompt, use_async, payload, output_location,
                    max_wait_time, elapsed, nAsync, nSync, nWait, nPoll,
                    nSleep, resp, syncRet, ret, s3obj, jobAccepted, prev >>
    /\ UNCHANGED << parserVars, batchVars, fmtVars, concVars, hpmVars >>

\* the loop condition fails: the timeout is logged and None returned
WaitTimeout ==
    /\ pc = "wait_loop"
    /\ ~(elapsed < max_wait_time)
    /\ WaitFinish("wait_timeout", LogTimeout, PyNone)
    /\ UNCHANGED << call, prompt, use_async, payload, output_location,
                    max_wait_time, elapsed, nAsync, nSync, nWait, nPoll,
                    nSleep, resp, syncRet, ret, s3obj, jobAccepted, prev >>
    /\ UNCHANGED << parserVars, batchVars, fmtVars, concVars, hpmVars >>

----------------------------------------------------------------------------
(* Callers and the remote side *)

\* the locals of a call are gone once it has returned
DropLocals ==
    /\ call' = "none"
    /\ prompt' = ""
    /\ use_async' = FALSE
    /\ payload' = NoPayload
    /\ output_location' = PyNone
    /\ max_wait_time' = 0
    /\ FreshCall

\* infer's caller takes the returned value
Return ==
    /\ pc = "done"
    /\ call = "infer"
    /\ pc' = "idle"
    /\ DropLocals
    /\ UNCHANGED << s3obj, jobAccepted, prev >>
    /\ UNCHANGED << parserVars, batchVars, fmtVars, concVars, hpmVars >>

\* the caller of a direct wait_for_async_result takes the returned value
\* and keeps it to compare it with the next one
WaitReturn ==
    /\ pc = "wait_returned"
    /\ call = "wait"
    /\ pc' = "idle"
    /\ prev' = [exit |-> exit, ret |-> waitRet]
    /\ DropLocals
    /\ UNCHANGED << s3obj, jobAccepted >>
    /\ UNCHANGED << parserVars, batchVars, fmtVars, concVars, hpmVars >>

\* remote: the accepted job completes and its result is written
RemoteWrite(b) ==
    /\ jobAccepted
    /\ s3obj = Absent
    /\ s3obj' = b
    /\ UNCHANGED << clientVars, jobAccepted >>
    /\ UNCHANGED << parserVars, batchVars, fmtVars, concVars, hpmVars >>

AsyncOutcomes ==
    {RespClientError, RespOtherError, RespOk(PyNone)}
      \cup {RespOk(PyChars(l)) : l \in Locations}

SyncOutcomes == {RespClientError, RespOtherError} \cup {RespOk(b) : b \in Bodies}

WaitTimes == (-1)..MaxWait

\* a caller of infer, and the remote side
Next ==
    \/ \E p \in Prompts, ua \in BOOLEAN : Infer(p, ua)
    \/ \E o \in AsyncOutcomes : invoke_async_endpoint(o)
    \/ InferBranch
    \/ \E o \in SyncOutcomes : invoke_sync_endpoint(o)
    \/ InferReturn
    \/ WaitEnter
    \/ \E o \in ReadOutcomes, d \in 0..MaxReadDur : WaitPoll(o, d)
    \/ WaitSleep
    \/ WaitTimeout
    \/ Return
    \/ \E b \in Bodies : RemoteWrite(b)

Spec == Init /\ [][Next]_vars

\* a caller of wait_for_async_result for a job submitted earlier, and the
\* remote side
InitWait ==
    /\ pc = "idle"
    /\ call = "none"
    /\ prompt = ""
    /\ use_async = FALSE
    /\ payload = NoPayload
    /\ output_location = PyNone
    /\ max_wait_time = 0
    /\ elapsed = 0
    /\ nAsync = 0
    /\ nSync = 0
    /\ nWait = 0
    /\ nPoll = 0
    /\ nSleep = 0
    /\ resp = RespNone
    /\ syncRet = PyNone
    /\ waitRet = PyNone
    /\ exit = "none"
    /\ log = LogNone
    /\ ret = PyNone
    /\ s3obj = Absent
    /\ jobAccepted = TRUE
    /\ prev = NoPrev
    /\ p_pc = "off"
    /\ p_arg = << >>
    /\ embedded = [kind |-> "none", obj |-> PyNone]
    /\ response = << >>
    /\ p_ret = PyNone
    /\ json_str = << >>
    /\ b_pc = "off"
    /\ prompts = << >>
    /\ b_use_async = FALSE
    /\ results = << >>
    /\ b_i = 0
    /\ nDelay = 0
    /\ f_pc = "off"
    /\ messages = << >>
    /\ formatted_prompt = ""
    /\ f_k = 0
    /\ fields = NewFields(EndpointName)
    /\ thread = NoThreads
    /\ store = << >>
    /\ jobs = {}
    /\ x_pc = "off"
    /\ extractor = "none"
    /\ stages = << >>
    /\ llm_response = PyNone
    /\ parsed_data = PyNone
    /\ is_valid = FALSE
    /\ x_ret = PyNone
    /\ x_log = LogNone
    /\ m_pc = "off"
    /\ available = {}
    /\ parser_preference = "unset"
    /\ parser_type = "unset"
    /\ nSetup = 0
    /\ dispatched = [method |-> "none", markdown_text |-> ""]
    /\ h_pc = "off"
    /\ structure = << >>
    /\ current_section = PyNone
    /\ content_buffer = << >>
    /\ events = << >>

NextWait ==
    \/ \E l \in Locations, T \in WaitTimes : WaitCall(l, T)
    \/ WaitEnter
    \/ \E o \in ReadOutcomes, d \in 0..MaxReadDur : WaitPoll(o, d)
    \/ WaitSleep
    \/ WaitTimeout
    \/ WaitReturn
    \/ \E b \in Bodies : RemoteWrite(b)

SpecWait == InitWait /\ [][NextWait]_vars

----------------------------------------------------------------------------
(* batch_infer *)

\* the prompt lists batch_infer is called with
RECURSIVE SeqsUpTo(_, _)
SeqsUpTo(S, n) ==
    IF n = 0 THEN { << >> }
    ELSE LET shorter == SeqsUpTo(S, n - 1)
         IN  shorter \cup { Append(s, x) : s \in shorter, x \in S }

PromptLists == SeqsUpTo(Prompts, MaxBatch)

\* batch_infer(prompts, use_async): results = []
batch_infer(ps, ua) ==
    /\ b_pc = "idle"
    /\ pc = "idle"
    /\ prompts' = ps
    /\ b_use_async' = ua
    /\ results' = << >>
    /\ b_i' = 0
    /\ nDelay' = 0
    /\ b_pc' = "loop"
    /\ UNCHANGED << clientVars, remoteVars, parserVars, fmtVars, concVars, hpmVars >>

\* result = self.infer(prompt, use_async=use_async) for the next prompt
BatchInfer ==
    /\ b_pc = "loop"
    /\ b_i < Len(prompts)
    /\ Infer(prompts[b_i + 1], b_use_async)

\* BatchAppend that leaves out the prompts whose inference failed
BatchAppendSkipFailed ==
    /\ b_pc = "loop"
    /\ call = "infer"
    /\ pc = "done"
    /\ results' = IF ret = PyNone THEN results ELSE Append(results, ret)
    /\ nDelay' = IF b_i < Len(prompts) - 1 THEN nDelay + 1 ELSE nDelay
    /\ b_i' = b_i + 1
    /\ pc' = "idle"
    /\ DropLocals
    /\ UNCHANGED << b_pc, prompts, b_use_async >>
    /\ UNCHANGED << s3obj, jobAccepted, prev >>
    /\ UNCHANGED << parserVars, fmtVars, concVars, hpmVars >>

\* results.append(result), then time.sleep(1) unless this was the last
\* prompt, then the next round of the loop
BatchAppend ==
    /\ b_pc = "loop"
    /\ call = "infer"
    /\ pc = "done"
    /\ results' = Append(results, ret)
    /\ nDelay' = IF b_i < Len(prompts) - 1 THEN nDelay + 1 ELSE nDelay
    /\ b_i' = b_i + 1
    /\ pc' = "idle"
    /\ DropLocals
    /\ UNCHANGED << b_pc, prompts, b_use_async >>
    /\ UNCHANGED << s3obj, jobAccepted, prev >>
    /\ UNCHANGED << parserVars, fmtVars, concVars, hpmVars >>

\* return results, once the loop has gone through all prompts
BatchReturn ==
    /\ b_pc = "loop"
    /\ pc = "idle"
    /\ b_i = Len(prompts)
    /\ b_pc' = "returned"
    /\ UNCHANGED << prompts, b_use_async, results, b_i, nDelay >>
    /\ UNCHANGED << clientVars, remoteVars, parserVars, fmtVars, concVars, hpmVars >>

InitBatch ==
    /\ pc = "idle"
    /\ call = "none"
    /\ prompt = ""
    /\ use_async = FALSE
    /\ payload = NoPayload
    /\ output_location = PyNone
    /\ max_wait_time = 0
    /\ elapsed = 0
    /\ nAsync = 0
    /\ nSync = 0
    /\ nWait = 0
    /\ nPoll = 0
    /\ nSleep = 0
    /\ resp = RespNone
    /\ syncRet = PyNone
    /\ waitRet = PyNone
    /\ exit = "none"
    /\ log = LogNone
    /\ ret = PyNone
    /\ s3obj = Absent
    /\ jobAccepted = FALSE
    /\ prev = NoPrev
    /\ p_pc = "off"
    /\ p_arg = << >>
    /\ embedded = [kind |-> "none", obj |-> PyNone]
    /\ response = << >>
    /\ p_ret = PyNone
    /\ json_str = << >>
    /\ b_pc = "idle"
    /\ prompts = << >>
    /\ b_use_async = FALSE
    /\ results = << >>
    /\ b_i = 0
    /\ nDelay = 0
    /\ f_pc = "off"
    /\ messages = << >>
    /\ formatted_prompt = ""
    /\ f_k = 0
    /\ fields = NewFields(EndpointName)
    /\ thread = NoThreads
    /\ store = << >>
    /\ jobs = {}
    /\ x_pc = "off"
    /\ extractor = "none"
    /\ stages = << >>
    /\ llm_response = PyNone
    /\ parsed_data = PyNone
    /\ is_valid = FALSE
    /\ x_ret = PyNone
    /\ x_log = LogNone
    /\ m_pc = "off"
    /\ available = {}
    /\ parser_preference = "unset"
    /\ parser_type = "unset"
    /\ nSetup = 0
    /\ dispatched = [method |-> "none", markdown_text |-> ""]
    /\ h_pc = "off"
    /\ structure = << >>
    /\ current_section = PyNone
    /\ content_buffer = << >>
    /\ events = << >>

\* the response bodies of the endpoint during a batch: a text, a malformed
\* envelope and a body that is no JSON
BatchBodies == {JList(<<JDict(TRUE, PyStr("hello"))>>), JDict(FALSE, PyNone), BadJson}

BatchAsyncOutcomes ==
    {RespClientError, RespOk(PyChars(LocOk)), RespOk(PyChars(LocHttp))}

BatchSyncOutcomes == {RespClientError, RespOtherError} \cup {RespOk(b) : b \in BatchBodies}

NextBatch ==
    \/ \E ps \in PromptLists, ua \in BOOLEAN : batch_infer(ps, ua)
    \/ BatchInfer
    \/ \E o \in BatchAsyncOutcomes : invoke_async_endpoint(o)
    \/ InferBranch
    \/ \E o \in BatchSyncOutcomes : invoke_sync_endpoint(o)
    \/ InferReturn
    \/ WaitEnter
    \/ \E o \in ReadOutcomes : WaitPoll(o, 0)
    \/ WaitSleep
    \/ WaitTimeout
    \/ BatchAppend
    \/ BatchReturn
    \/ \E b \in BatchBodies : RemoteWrite(b)

SpecBatch == InitBatch /\ [][NextBatch]_vars

----------------------------------------------------------------------------
(* _format_messages_for_llama (src/extract_thinker_sagemaker.py) *)

\* the chat messages: dicts that may lack the role or the content member
MessageRoles == {"system", "user", "assistant", "tool"}
MessageContents == {"hi"}
Messages ==
    { [role |-> r, content |-> c] : r \in MessageRoles, c \in MessageContents }
      \cup { [role |-> r] : r \in MessageRoles }
      \cup { [content |-> c] : c \in MessageContents }

MessageLists == SeqsUpTo(Messages, MaxMessages)

\* message.get(key, default)
MessageGet(message, key, default) ==
    IF key \in DOMAIN message THEN message[key] ELSE default

\* formatted_prompt = "<|begin_of_text|>"
FormatBegin ==
    /\ f_pc = "called"
    /\ formatted_prompt' = "<|begin_of_text|>"
    /\ f_k' = 0
    /\ f_pc' = "loop"
    /\ UNCHANGED messages
    /\ UNCHANGED << clientVars, remoteVars, parserVars, batchVars, concVars, hpmVars >>

\* FormatMessage that leaves an assistant message open, without the
\* end-of-turn marker
FormatMessageOpenAssistant ==
    /\ f_pc = "loop"
    /\ f_k < Len(messages)
    /\ LET message == messages[f_k + 1]
           role == MessageGet(message, "role", "user")
           content == MessageGet(message, "content", "")
       IN  formatted_prompt' =
             IF role = "system"
             THEN formatted_prompt \o "<|start_header_id|>system<|end_header_id|>\n\n"
                    \o content \o "<|eot_id|>"
             ELSE IF role = "user"
             THEN formatted_prompt \o "<|start_header_id|>user<|end_header_id|>\n\n"
                    \o content \o "<|eot_id|>"
             ELSE IF role = "assistant"
             THEN formatted_prompt \o "<|start_header_id|>assistant<|end_header_id|>\n\n"
                    \o content
             ELSE formatted_prompt
    /\ f_k' = f_k + 1
    /\ UNCHANGED << f_pc, messages >>
    /\ UNCHANGED << clientVars, remoteVars, parserVars, batchVars, concVars, hpmVars >>

\* one round of the for loop: the block of the message is appended, by the
\* branch its role selects; a role that is none of the three appends nothing
FormatMessage ==
    /\ f_pc = "loop"
    /\ f_k < Len(messages)
    /\ LET message == messages[f_k + 1]
           role == MessageGet(message, "role", "user")
           content == MessageGet(message, "content", "")
       IN  formatted_prompt' =
             IF role = "system"
             THEN formatted_prompt \o "<|start_header_id|>system<|end_header_id|>\n\n"
                    \o content \o "<|eot_id|>"
             ELSE IF role = "user"
             THEN formatted_prompt \o "<|start_header_id|>user<|end_header_id|>\n\n"
                    \o content \o "<|eot_id|>"
             ELSE IF role = "assistant"
             THEN formatted_prompt \o "<|start_header_id|>assistant<|end_header_id|>\n\n"
                    \o content \o "<|eot_id|>"
             ELSE formatted_prompt
    /\ f_k' = f_k + 1
    /\ UNCHANGED << f_pc, messages >>
    /\ UNCHANGED << clientVars, remoteVars, parserVars, batchVars, concVars, hpmVars >>

\* the assistant header for the response is appended and the prompt returned
FormatReturn ==
    /\ f_pc = "loop"
    /\ f_k = Len(messages)
    /\ formatted_prompt' =
         formatted_prompt \o "<|start_header_id|>assistant<|end_header_id|>\n\n"
    /\ f_pc' = "returned"
    /\ UNCHANGED << messages, f_k >>
    /\ UNCHANGED << clientVars, remoteVars, parserVars, batchVars, concVars, hpmVars >>

\* _format_messages_for_llama(messages) is called
InitFormat ==
    /\ pc = "idle"
    /\ call = "none"
    /\ prompt = ""
    /\ use_async = FALSE
    /\ payload = NoPayload
    /\ output_location = PyNone
    /\ max_wait_time = 0
    /\ elapsed = 0
    /\ nAsync = 0
    /\ nSync = 0
    /\ nWait = 0
    /\ nPoll = 0
    /\ nSleep = 0
    /\ resp = RespNone
    /\ syncRet = PyNone
    /\ waitRet = PyNone
    /\ exit = "none"
    /\ log = LogNone
    /\ ret = PyNone
    /\ s3obj = Absent
    /\ jobAccepted = FALSE
    /\ prev = NoPrev
    /\ p_pc = "off"
    /\ p_arg = << >>
    /\ embedded = [kind |-> "none", obj |-> PyNone]
    /\ response = << >>
    /\ p_ret = PyNone
    /\ json_str = << >>
    /\ b_pc = "off"
    /\ prompts = << >>
    /\ b_use_async = FALSE
    /\ results = << >>
    /\ b_i = 0
    /\ nDelay = 0
    /\ f_pc = "called"
    /\ messages \in MessageLists
    /\ formatted_prompt = ""
    /\ f_k = 0
    /\ fields = NoFields
    /\ thread = NoThreads
    /\ store = << >>
    /\ jobs = {}
    /\ x_pc = "off"
    /\ extractor = "none"
    /\ stages = << >>
    /\ llm_response = PyNone
    /\ parsed_data = PyNone
    /\ is_valid = FALSE
    /\ x_ret = PyNone
    /\ x_log = LogNone
    /\ m_pc = "off"
    /\ available = {}
    /\ parser_preference = "unset"
    /\ parser_type = "unset"
    /\ nSetup = 0
    /\ dispatched = [method |-> "none", markdown_text |-> ""]
    /\ h_pc = "off"
    /\ structure = << >>
    /\ current_section = PyNone
    /\ content_buffer = << >>
    /\ events = << >>

NextFormat ==
    \/ FormatBegin
    \/ FormatMessage
    \/ FormatReturn

SpecFormat == InitFormat /\ [][NextFormat]_vars

----------------------------------------------------------------------------
(* Concurrent infer calls on one LLMInference object: each caller thread   *)
(* runs infer with its own locals; the object's fields and the remote side *)
(* are shared                                                              *)

\* the locals of a thread that runs no call
IdleThread ==
    [ pc |-> "idle", prompt |-> "", use_async |-> FALSE, payload |-> NoPayload,
      output_location |-> PyNone, key |-> << >>, elapsed |-> 0,
      request |-> [op |-> "none"], resp |-> RespNone, ret |-> PyNone ]

\* prepare_llama_payload(prompt), with the parameters read from the fields
PayloadOf(self, p) ==
    [ inputs |-> prepare_llama_payload(p).inputs,
      parameters |-> [ max_new_tokens |-> self.max_tokens,
                       temperature |-> self.temperature,
                       top_p |-> self.top_p,
                       do_sample |-> TRUE,
                       stop |-> << "<|eot_id|>" >>,
                       return_full_text |-> FALSE ] ]

\* the output location the endpoint assigns to the job of thread th
ThreadLoc(th) == S3Prefix \o << "b", "/", th >>
ThreadKeys == { << th >> : th \in Threads }

\* bucket, key = s3_path.split('/', 1): the key
SplitKey(s3_path) == DropFirst(s3_path, FindChar(s3_path, "/"))

\* the response bodies of the endpoint while two threads call it
ConcBodies == {JList(<<JDict(TRUE, PyStr("hello"))>>), JDict(TRUE, PyStr("")), BadJson}

\* ThreadInfer that sets the temperature field for its own call
ThreadInferSetsTemperature(th, p, ua) ==
    /\ thread[th].pc = "idle"
    /\ fields' = [fields EXCEPT !.temperature = IF ua THEN "0.0" ELSE @]
    /\ thread' = [thread EXCEPT ![th] =
          [IdleThread EXCEPT !.pc = IF ua THEN "invoke_async" ELSE "invoke_sync",
                             !.prompt = p, !.use_async = ua,
                             !.payload = PayloadOf(fields', p)]]
    /\ UNCHANGED << store, jobs >>
    /\ UNCHANGED << clientVars, remoteVars, parserVars, batchVars, fmtVars,
                    hpmVars >>

\* infer(prompt, use_async) in thread th: the payload, then the branch on
\* use_async
ThreadInfer(th, p, ua) ==
    /\ thread[th].pc = "idle"
    /\ thread' = [thread EXCEPT ![th] =
          [IdleThread EXCEPT !.pc = IF ua THEN "invoke_async" ELSE "invoke_sync",
                             !.prompt = p, !.use_async = ua,
                             !.payload = PayloadOf(fields, p)]]
    /\ UNCHANGED << fields, store, jobs >>
    /\ UNCHANGED << clientVars, remoteVars, parserVars, batchVars, fmtVars,
                    hpmVars >>

\* invoke_async_endpoint in thread th; o is the endpoint's answer, an
\* accepted job gets the thread's own output location
ThreadAsync(th, o) ==
    /\ thread[th].pc = "invoke_async"
    /\ thread' = [thread EXCEPT ![th] =
          [@ EXCEPT !.pc = "infer_branch",
                    !.request = [op |-> "invoke_endpoint_async",
                                 EndpointName |-> fields.endpoint_name,
                                 payload |-> thread[th].payload],
                    !.resp = o,
                    !.output_location = IF o.k = "ok" THEN o.body ELSE PyNone]]
    /\ jobs' = IF o.k = "ok" THEN jobs \cup { << th >> } ELSE jobs
    /\ UNCHANGED << fields, store >>
    /\ UNCHANGED << clientVars, remoteVars, parserVars, batchVars, fmtVars,
                    hpmVars >>

\* ThreadBranch that prepares the payload again for the fallback, from the
\* bare prompt
ThreadBranchRebuild(th) ==
    /\ thread[th].pc = "infer_branch"
    /\ thread' = [thread EXCEPT ![th] =
          IF Truthy(thread[th].output_location)
          THEN [@ EXCEPT !.pc = "wait_enter"]
          ELSE [@ EXCEPT !.pc = "invoke_sync",
                         !.payload = [@ EXCEPT !.inputs = thread[th].prompt]]]
    /\ UNCHANGED << fields, store, jobs >>
    /\ UNCHANGED << clientVars, remoteVars, parserVars, batchVars, fmtVars,
                    hpmVars >>

\* infer in thread th, the branch on output_location
ThreadBranch(th) ==
    /\ thread[th].pc = "infer_branch"
    /\ thread' = [thread EXCEPT ![th].pc =
          IF Truthy(thread[th].output_location) THEN "wait_enter" ELSE "invoke_sync"]
    /\ UNCHANGED << fields, store, jobs >>
    /\ UNCHANGED << clientVars, remoteVars, parserVars, batchVars, fmtVars,
                    hpmVars >>

\* invoke_sync_endpoint in thread th; o is the endpoint's answer
ThreadSync(th, o) ==
    /\ thread[th].pc = "invoke_sync"
    /\ thread' = [thread EXCEPT ![th] =
          [@ EXCEPT !.pc = "done",
                    !.request = [op |-> "invoke_endpoint",
                                 EndpointName |-> fields.endpoint_name,
                                 payload |-> thread[th].payload],
                    !.resp = o,
                    !.ret = SyncResult(o).ret]]
    /\ UNCHANGED << fields, store, jobs >>
    /\ UNCHANGED << clientVars, remoteVars, parserVars, batchVars, fmtVars,
                    hpmVars >>

\* wait_for_async_result in thread th: the check of the location, the split
\* into bucket and key, start_time
ThreadWaitEnter(th) ==
    /\ thread[th].pc = "wait_enter"
    /\ LET loc == thread[th].output_location.chars
       IN  thread' = [thread EXCEPT ![th] =
             IF ~StartsWith(loc, S3Prefix) \/ SplitOnceLen(DropFirst(loc, 5), "/") # 2
             THEN [@ EXCEPT !.pc = "done", !.ret = PyNone]
             ELSE [@ EXCEPT !.pc = "wait_loop", !.elapsed = 0,
                            !.key = SplitKey(DropFirst(loc, 5))]]
    /\ UNCHANGED << fields, store, jobs >>
    /\ UNCHANGED << clientVars, remoteVars, parserVars, batchVars, fmtVars,
                    hpmVars >>

\* what get_object can answer for a key
KeyReadOutcomes(k) ==
    {RespClientError}
      \cup (IF k \notin DOMAIN store \/ store[k] = Absent
            THEN {RespNoSuchKey} ELSE {RespOk(store[k])})

\* one pass of the while loop in thread th: get_object on its bucket and
\* key, then the sleep after a 'not found', or the return
ThreadPoll(th, o) ==
    /\ thread[th].pc = "wait_loop"
    /\ thread[th].elapsed < DefaultMaxWait
    /\ o \in KeyReadOutcomes(thread[th].key)
    /\ LET j == DecodeBody(o.body)
           x == WaitExtract(j.value)
           req == [op |-> "get_object", Key |-> thread[th].key]
       IN  thread' = [thread EXCEPT ![th] =
             IF o.k = "no_such_key"
             THEN [@ EXCEPT !.request = req, !.resp = o,
                            !.elapsed = @ + SleepTime]
             ELSE IF o.k = "client_error" \/ j.raised \/ x.raised
             THEN [@ EXCEPT !.request = req, !.resp = o, !.pc = "done",
                            !.ret = PyNone]
             ELSE [@ EXCEPT !.request = req, !.resp = o, !.pc = "done",
                            !.ret = x.ret]]
    /\ UNCHANGED << fields, store, jobs >>
    /\ UNCHANGED << clientVars, remoteVars, parserVars, batchVars, fmtVars,
                    hpmVars >>

\* the loop condition fails in thread th: timeout, None is returned
ThreadTimeout(th) ==
    /\ thread[th].pc = "wait_loop"
    /\ thread[th].elapsed >= DefaultMaxWait
    /\ thread' = [thread EXCEPT ![th] = [@ EXCEPT !.pc = "done", !.ret = PyNone]]
    /\ UNCHANGED << fields, store, jobs >>
    /\ UNCHANGED << clientVars, remoteVars, parserVars, batchVars, fmtVars,
                    hpmVars >>

\* remote: an accepted job completes and its result is written at its key
StoreWrite(k, b) ==
    /\ k \in jobs
    /\ store[k] = Absent
    /\ store' = [store EXCEPT ![k] = b]
    /\ UNCHANGED << fields, thread, jobs >>
    /\ UNCHANGED << clientVars, remoteVars, parserVars, batchVars, fmtVars,
                    hpmVars >>

\* llm = LLMInference(EndpointName), then the threads call llm.infer
InitConc ==
    /\ pc = "idle"
    /\ call = "none"
    /\ prompt = ""
    /\ use_async = FALSE
    /\ payload = NoPayload
    /\ output_location = PyNone
    /\ max_wait_time = 0
    /\ elapsed = 0
    /\ nAsync = 0
    /\ nSync = 0
    /\ nWait = 0
    /\ nPoll = 0
    /\ nSleep = 0
    /\ resp = RespNone
    /\ syncRet = PyNone
    /\ waitRet = PyNone
    /\ exit = "none"
    /\ log = LogNone
    /\ ret = PyNone
    /\ s3obj = Absent
    /\ jobAccepted = FALSE
    /\ prev = NoPrev
    /\ p_pc = "off"
    /\ p_arg = << >>
    /\ embedded = [kind |-> "none", obj |-> PyNone]
    /\ response = << >>
    /\ p_ret = PyNone
    /\ json_str = << >>
    /\ b_pc = "off"
    /\ prompts = << >>
    /\ b_use_async = FALSE
    /\ results = << >>
    /\ b_i = 0
    /\ nDelay = 0
    /\ f_pc = "off"
    /\ messages = << >>
    /\ formatted_prompt = ""
    /\ f_k = 0
    /\ fields = NewFields(EndpointName)
    /\ thread = [th \in Threads |-> IdleThread]
    /\ store = [k \in ThreadKeys |-> Absent]
    /\ jobs = {}
    /\ x_pc = "off"
    /\ extractor = "none"
    /\ stages = << >>
    /\ llm_response = PyNone
    /\ parsed_data = PyNone
    /\ is_valid = FALSE
    /\ x_ret = PyNone
    /\ x_log = LogNone
    /\ m_pc = "off"
    /\ available = {}
    /\ parser_preference = "unset"
    /\ parser_type = "unset"
    /\ nSetup = 0
    /\ dispatched = [method |-> "none", markdown_text |-> ""]
    /\ h_pc = "off"
    /\ structure = << >>
    /\ current_section = PyNone
    /\ content_buffer = << >>
    /\ events = << >>

NextConc ==
    \/ \E th \in Threads, p \in Prompts, ua \in BOOLEAN : ThreadInfer(th, p, ua)
    \/ \E th \in Threads :
          \E o \in {RespClientError, RespOk(PyChars(ThreadLoc(th)))} : ThreadAsync(th, o)
    \/ \E th \in Threads : ThreadBranch(th)
    \/ \E th \in Threads :
          \E o \in {RespClientError} \cup {RespOk(b) : b \in ConcBodies} : ThreadSync(th, o)
    \/ \E th \in Threads : ThreadWaitEnter(th)
    \/ \E th \in Threads : \E o \in KeyReadOutcomes(thread[th].key) : ThreadPoll(th, o)
    \/ \E th \in Threads : ThreadTimeout(th)
    \/ \E k \in ThreadKeys, b \in ConcBodies : StoreWrite(k, b)

SpecConc == InitConc /\ [][NextConc]_vars

----------------------------------------------------------------------------
(* Texts as character sequences, and the JSON values json.loads builds *)

JObj(items) == [t |-> "obj", items |-> items]
JArr(elems) == [t |-> "arr", elems |-> elems]
JNum(n) == [t |-> "num", n |-> n]
JTrue == [t |-> "true"]
JFalse == [t |-> "false"]
\* json.loads gives None for null
JNull == PyNone
Item(k, v) == [k |-> k, v |-> v]

\* the backtick character, which a TLA+ string cannot hold
BT == "<backtick>"
Fence == << BT, BT, BT >>
JsonTag == << "j", "s", "o", "n" >>

\* the characters \s matches, among the characters of the texts
ReSpace == {" ", "\t", "\n", "\r", "\f"}
\* the whitespace json.loads skips
JsonWs == {" ", "\t", "\n", "\r"}
\* the characters json.loads rejects inside a string
ControlChars == {"\t", "\n", "\r", "\f"}
Digits == {"0", "1", "2", "3", "4", "5", "6", "7", "8", "9"}

DigitVal(c) ==
    CASE c = "0" -> 0 [] c = "1" -> 1 [] c = "2" -> 2 [] c = "3" -> 3
      [] c = "4" -> 4 [] c = "5" -> 5 [] c = "6" -> 6 [] c = "7" -> 7
      [] c = "8" -> 8 [] c = "9" -> 9

\* s[i:].startswith(p), i counted from 1
IsAt(s, i, p) == i + Len(p) - 1 <= Len(s) /\ SubSeq(s, i, i + Len(p) - 1) = p

----------------------------------------------------------------------------
(* json.loads on a text: objects, arrays, strings with the one-character   *)
(* escapes, integers, true, false and null                                 *)

ParseFail == [ok |-> FALSE, v |-> JNull, i |-> 0]
ParseOk(v, i) == [ok |-> TRUE, v |-> v, i |-> i]

RECURSIVE SkipWs(_, _)
SkipWs(s, i) == IF i <= Len(s) /\ s[i] \in JsonWs THEN SkipWs(s, i + 1) ELSE i

\* the character an escape \c stands for
Unescape(c) ==
    CASE c = "n" -> "\n" [] c = "t" -> "\t" [] c = "r" -> "\r"
      [] c = "f" -> "\f" [] OTHER -> c

\* the body of a string from index i on, up to the closing quote
RECURSIVE ScanString(_, _, _)
ScanString(s, i, acc) ==
    IF i > Len(s) THEN ParseFail
    ELSE IF s[i] = "\"" THEN ParseOk(PyChars(acc), i + 1)
    ELSE IF s[i] = "\\"
    THEN IF i + 1 <= Len(s) /\ s[i + 1] \in {"\"", "\\", "/", "n", "t", "r", "f"}
         THEN ScanString(s, i + 2, Append(acc, Unescape(s[i + 1])))
         ELSE ParseFail
    ELSE IF s[i] \in ControlChars THEN ParseFail
    ELSE ScanString(s, i + 1, Append(acc, s[i]))

RECURSIVE ScanDigits(_, _)
ScanDigits(s, i) == IF i <= Len(s) /\ s[i] \in Digits THEN ScanDigits(s, i + 1) ELSE i

RECURSIVE DigitsValue(_, _, _)
DigitsValue(s, i, e) ==
    IF e < i THEN 0 ELSE 10 * DigitsValue(s, i, e - 1) + DigitVal(s[e])

\* -?(0|[1-9][0-9]*)
ScanNumber(s, i) ==
    LET neg == s[i] = "-"
        st == IF neg THEN i + 1 ELSE i
        e == IF st <= Len(s) /\ s[st] = "0" THEN st + 1 ELSE ScanDigits(s, st)
    IN  IF e = st THEN ParseFail
        ELSE ParseOk(JNum((IF neg THEN -1 ELSE 1) * DigitsValue(s, st, e - 1)), e)

\* dict[k] = v on the items built so far
RECURSIVE DictSet(_, _, _)
DictSet(items, k, v) ==
    IF items = << >> THEN << Item(k, v) >>
    ELSE IF Head(items).k = k THEN << Item(k, v) >> \o Tail(items)
    ELSE << Head(items) >> \o DictSet(Tail(items), k, v)

RECURSIVE ScanValue(_, _), ScanMembers(_, _, _), ScanElements(_, _, _)

\* the value that starts at index i
ScanValue(s, i) ==
    IF i > Len(s) THEN ParseFail
    ELSE IF s[i] = "\"" THEN ScanString(s, i + 1, << >>)
    ELSE IF s[i] = "{"
    THEN LET j == SkipWs(s, i + 1)
         IN  IF j <= Len(s) /\ s[j] = "}" THEN ParseOk(JObj(<< >>), j + 1)
             ELSE ScanMembers(s, j, << >>)
    ELSE IF s[i] = "["
    THEN LET j == SkipWs(s, i + 1)
         IN  IF j <= Len(s) /\ s[j] = "]" THEN ParseOk(JArr(<< >>), j + 1)
             ELSE ScanElements(s, j, << >>)
    ELSE IF IsAt(s, i, << "n", "u", "l", "l" >>) THEN ParseOk(JNull, i + 4)
    ELSE IF IsAt(s, i, << "t", "r", "u", "e" >>) THEN ParseOk(JTrue, i + 4)
    ELSE IF IsAt(s, i, << "f", "a", "l", "s", "e" >>) THEN ParseOk(JFalse, i + 5)
    ELSE IF s[i] \in Digits \cup {"-"} THEN ScanNumber(s, i)
    ELSE ParseFail

\* the members of an object from index i on, where a key has to start
ScanMembers(s, i, items) ==
    IF ~(i <= Len(s) /\ s[i] = "\"") THEN ParseFail
    ELSE LET k == ScanString(s, i + 1, << >>)
         IN  IF ~k.ok THEN ParseFail
             ELSE LET c == SkipWs(s, k.i)
                  IN  IF ~(c <= Len(s) /\ s[c] = ":") THEN ParseFail
                      ELSE LET v == ScanValue(s, SkipWs(s, c + 1))
                           IN  IF ~v.ok THEN ParseFail
                               ELSE LET e == SkipWs(s, v.i)
                                        now == DictSet(items, k.v.chars, v.v)
                                    IN  IF e > Len(s) THEN ParseFail
                                        ELSE IF s[e] = "}" THEN ParseOk(JObj(now), e + 1)
                                        ELSE IF s[e] = ","
                                        THEN ScanMembers(s, SkipWs(s, e + 1), now)
                                        ELSE ParseFail

\* the elements of an array from index i on
ScanElements(s, i, elems) ==
    LET v == ScanValue(s, i)
    IN  IF ~v.ok THEN ParseFail
        ELSE LET e == SkipWs(s, v.i)
                 now == Append(elems, v.v)
             IN  IF e > Len(s) THEN ParseFail
                 ELSE IF s[e] = "]" THEN ParseOk(JArr(now), e + 1)
                 ELSE IF s[e] = ","
                 THEN ScanElements(s, SkipWs(s, e + 1), now)
                 ELSE ParseFail

\* json.loads(s): the value, or raised for a JSONDecodeError
json_loads(s) ==
    LET v == ScanValue(s, SkipWs(s, 1))
    IN  IF ~v.ok THEN [raised |-> TRUE, value |-> JNull]
        ELSE IF SkipWs(s, v.i) <= Len(s) THEN [raised |-> TRUE, value |-> JNull]
        ELSE [raised |-> FALSE, value |-> v.v]

----------------------------------------------------------------------------
(* extract_json_from_response                                              *)

RECURSIVE SkipSpace(_, _)
SkipSpace(s, i) == IF i <= Len(s) /\ s[i] \in ReSpace THEN SkipSpace(s, i + 1) ELSE i

\* ^ and $ under re.MULTILINE
AtLineStart(s, i) == i = 1 \/ s[i - 1] = "\n"
AtLineEnd(s, i) == i = Len(s) + 1 \/ s[i] = "\n"

\* OpenFenceMatch without the optional json tag
OpenFenceMatchNoTag(s, i) ==
    IF AtLineStart(s, i) /\ IsAt(s, i, Fence)
    THEN SkipSpace(s, i + 3)
    ELSE 0

\* where a match of ^```(?:json)?\s* that starts at index i ends, 0 for no
\* match
OpenFenceMatch(s, i) ==
    IF AtLineStart(s, i) /\ IsAt(s, i, Fence)
    THEN SkipSpace(s, IF IsAt(s, i + 3, JsonTag) THEN i + 7 ELSE i + 3)
    ELSE 0

\* re.sub(r'^```(?:json)?\s*', '', s, flags=re.MULTILINE), from index i on
RECURSIVE SubOpenFence(_, _)
SubOpenFence(s, i) ==
    IF i > Len(s) THEN << >>
    ELSE LET e == OpenFenceMatch(s, i)
         IN  IF e # 0 THEN SubOpenFence(s, e)
             ELSE << s[i] >> \o SubOpenFence(s, i + 1)

\* where a match of \s*```$ that starts at index i ends, 0 for no match
CloseFenceMatch(s, i) ==
    LET j == SkipSpace(s, i)
    IN  IF IsAt(s, j, Fence) /\ AtLineEnd(s, j + 3) THEN j + 3 ELSE 0

\* re.sub(r'\s*```$', '', s, flags=re.MULTILINE), from index i on
RECURSIVE SubCloseFence(_, _)
SubCloseFence(s, i) ==
    IF i > Len(s) THEN << >>
    ELSE LET e == CloseFenceMatch(s, i)
         IN  IF e # 0 THEN SubCloseFence(s, e)
             ELSE << s[i] >> \o SubCloseFence(s, i + 1)

RECURSIVE LStrip(_, _)
LStrip(s, cs) == IF Len(s) > 0 /\ s[1] \in cs THEN LStrip(Tail(s), cs) ELSE s

RECURSIVE RStrip(_, _)
RStrip(s, cs) ==
    IF Len(s) > 0 /\ s[Len(s)] \in cs THEN RStrip(SubSeq(s, 1, Len(s) - 1), cs) ELSE s

\* str.strip(chars)
Strip(s, cs) == RStrip(LStrip(s, cs), cs)

\* the first re.sub of extract_json_from_response
RemoveOpenFence ==
    /\ p_pc = "sub_open"
    /\ response' = SubOpenFence(response, 1)
    /\ p_pc' = "sub_close"
    /\ UNCHANGED << p_arg, embedded, p_ret, json_str >>
    /\ UNCHANGED << clientVars, remoteVars, batchVars, fmtVars, concVars, hpmVars >>

\* the second re.sub of extract_json_from_response
RemoveCloseFence ==
    /\ p_pc = "sub_close"
    /\ response' = SubCloseFence(response, 1)
    /\ p_pc' = "strip"
    /\ UNCHANGED << p_arg, embedded, p_ret, json_str >>
    /\ UNCHANGED << clientVars, remoteVars, batchVars, fmtVars, concVars, hpmVars >>

\* the two strip calls: double quotes, then single quotes
StripQuotes ==
    /\ p_pc = "strip"
    /\ response' = Strip(Strip(response, {"\""}), {"'"})
    /\ p_pc' = "loads"
    /\ UNCHANGED << p_arg, embedded, p_ret, json_str >>
    /\ UNCHANGED << clientVars, remoteVars, batchVars, fmtVars, concVars, hpmVars >>

\* return json.loads(response), or None after a JSONDecodeError
LoadJson ==
    /\ p_pc = "loads"
    /\ LET r == json_loads(response)
       IN  p_ret' = IF r.raised THEN PyNone ELSE r.value
    /\ p_pc' = "returned"
    /\ UNCHANGED << p_arg, embedded, response, json_str >>
    /\ UNCHANGED << clientVars, remoteVars, batchVars, fmtVars, concVars, hpmVars >>

----------------------------------------------------------------------------
(* The texts the parser is called with *)

\* a string of a JSON text, with its escapes
RECURSIVE EscapeChars(_)
EscapeChars(cs) ==
    IF cs = << >> THEN << >>
    ELSE (CASE Head(cs) = "\"" -> << "\\", "\"" >>
            [] Head(cs) = "\\" -> << "\\", "\\" >>
            [] Head(cs) = "\n" -> << "\\", "n" >>
            [] OTHER -> << Head(cs) >>) \o EscapeChars(Tail(cs))

NumText(n) ==
    CASE n = 0 -> << "0" >> [] n = 1 -> << "1" >> [] n = 30 -> << "3", "0" >>
      [] n = -7 -> << "-", "7" >>

\* the layouts of a JSON text: what follows { [ and , what precedes } and ]
\* and what follows :
Layouts ==
    { [open |-> << >>, close |-> << >>, colon |-> << >>],
      [open |-> << >>, close |-> << >>, colon |-> << " " >>],
      [open |-> << "\n", " " >>, close |-> << "\n" >>, colon |-> << " " >>] }

RECURSIVE Dumps(_, _), DumpItems(_, _), DumpElems(_, _)
\* a JSON text of the value v
Dumps(v, lay) ==
    CASE v.t = "str" -> << "\"" >> \o EscapeChars(v.chars) \o << "\"" >>
      [] v.t = "num" -> NumText(v.n)
      [] v.t = "none" -> << "n", "u", "l", "l" >>
      [] v.t = "true" -> << "t", "r", "u", "e" >>
      [] v.t = "false" -> << "f", "a", "l", "s", "e" >>
      [] v.t = "obj" ->
           IF v.items = << >> THEN << "{", "}" >>
           ELSE << "{" >> \o lay.open \o DumpItems(v.items, lay) \o lay.close \o << "}" >>
      [] v.t = "arr" ->
           IF v.elems = << >> THEN << "[", "]" >>
           ELSE << "[" >> \o lay.open \o DumpElems(v.elems, lay) \o lay.close \o << "]" >>

DumpItems(items, lay) ==
    << "\"" >> \o EscapeChars(Head(items).k) \o << "\"", ":" >> \o lay.colon
      \o Dumps(Head(items).v, lay)
      \o (IF Len(items) = 1 THEN << >>
          ELSE << "," >> \o lay.open \o DumpItems(Tail(items), lay))

DumpElems(elems, lay) ==
    Dumps(Head(elems), lay)
      \o (IF Len(elems) = 1 THEN << >>
          ELSE << "," >> \o lay.open \o DumpElems(Tail(elems), lay))

\* JSON objects, among them ones whose strings hold the characters the
\* parser looks for
Objects ==
    { JObj(<< >>),
      JObj(<< Item(<< "a" >>, JNum(1)) >>),
      JObj(<< Item(<< "n" >>, PyChars(<< "J", "o" >>)),
              Item(<< "a" >>, JNum(30)) >>),
      JObj(<< Item(<< "a" >>, PyChars(Fence)) >>),
      JObj(<< Item(Fence \o JsonTag, JNull) >>),
      JObj(<< Item(<< "a" >>, PyChars(<< "\n" >> \o Fence \o << "\n" >>)),
              Item(<< "b" >>, JTrue) >>),
      JObj(<< Item(<< "a" >>, PyChars(<< "\"", "\"", "\"" >>)),
              Item(<< "b" >>, PyChars(<< "'", "}", "{" >>)) >>),
      JObj(<< Item(<< "a" >>, JObj(<< Item(<< "b" >>, JNum(-7)) >>)),
              Item(<< "c" >>, JArr(<< JNum(0), JFalse, PyChars(<< >>) >>)) >>) }

\* what stands between the opening fence and the object, between the object
\* and the closing fence, and after the closing fence
FenceGaps == { << >>, << "\n" >>, << " " >>, << "\r", "\n" >> }
FenceTails == { << >>, << "\n" >>, << " ", " " >> }

\* ```json ... ``` around a JSON text
FencedJson(text, g1, g2, tail) == Fence \o JsonTag \o g1 \o text \o g2 \o Fence \o tail

\* ``` ... ``` around a JSON text
FencedPlain(text, g1, g2, tail) == Fence \o g1 \o text \o g2 \o Fence \o tail

\* the closing fence ends its line or starts its line
ClosingFenceOnLineEdge(g2, tail) ==
    \/ tail = << >>
    \/ Head(tail) = "\n"
    \/ (g2 # << >> /\ g2[Len(g2)] = "\n")

ParserInputs ==
    { [kind |-> IF ClosingFenceOnLineEdge(g2, tail)
                THEN "fenced_json" ELSE "fenced_json_inline_close",
       text |-> FencedJson(Dumps(o, lay), g1, g2, tail), obj |-> o] :
        o \in Objects, lay \in Layouts, g1 \in FenceGaps, g2 \in FenceGaps, tail \in FenceTails }
      \cup
    { [kind |-> "fenced_json_indented",
       text |-> << " " >> \o FencedJson(Dumps(o, lay), << "\n" >>, << "\n" >>, << >>), obj |-> o] :
        o \in Objects, lay \in Layouts }
      \cup
    { [kind |-> "fenced_plain", text |-> FencedPlain(Dumps(o, lay), << "\n" >>, << "\n" >>, << >>), obj |-> o] :
        o \in Objects, lay \in Layouts }
      \cup
    { [kind |-> "bare", text |-> Dumps(o, lay), obj |-> o] : o \in Objects, lay \in Layouts }

\* extract_json_from_response(response) is called
InitParser ==
    /\ pc = "idle"
    /\ call = "none"
    /\ prompt = ""
    /\ use_async = FALSE
    /\ payload = NoPayload
    /\ output_location = PyNone
    /\ max_wait_time = 0
    /\ elapsed = 0
    /\ nAsync = 0
    /\ nSync = 0
    /\ nWait = 0
    /\ nPoll = 0
    /\ nSleep = 0
    /\ resp = RespNone
    /\ syncRet = PyNone
    /\ waitRet = PyNone
    /\ exit = "none"
    /\ log = LogNone
    /\ ret = PyNone
    /\ s3obj = Absent
    /\ jobAccepted = FALSE
    /\ prev = NoPrev
    /\ \E in \in ParserInputs :
          /\ p_arg = in.text
          /\ embedded = [kind |-> in.kind, obj |-> in.obj]
          /\ response = in.text
    /\ p_pc = "sub_open"
    /\ p_ret = PyNone
    /\ json_str = << >>
    /\ b_pc = "off"
    /\ prompts = << >>
    /\ b_use_async = FALSE
    /\ results = << >>
    /\ b_i = 0
    /\ nDelay = 0
    /\ f_pc = "off"
    /\ messages = << >>
    /\ formatted_prompt = ""
    /\ f_k = 0
    /\ fields = NoFields
    /\ thread = NoThreads
    /\ store = << >>
    /\ jobs = {}
    /\ x_pc = "off"
    /\ extractor = "none"
    /\ stages = << >>
    /\ llm_response = PyNone
    /\ parsed_data = PyNone
    /\ is_valid = FALSE
    /\ x_ret = PyNone
    /\ x_log = LogNone
    /\ m_pc = "off"
    /\ available = {}
    /\ parser_preference = "unset"
    /\ parser_type = "unset"
    /\ nSetup = 0
    /\ dispatched = [method |-> "none", markdown_text |-> ""]
    /\ h_pc = "off"
    /\ structure = << >>
    /\ current_section = PyNone
    /\ content_buffer = << >>
    /\ events = << >>

NextParser ==
    \/ RemoveOpenFence
    \/ RemoveCloseFence
    \/ StripQuotes
    \/ LoadJson

SpecParser == InitParser /\ [][NextParser]_vars

----------------------------------------------------------------------------
(* The JSON recovery of extract_with_prompt (src/extract_thinker.py) and   *)
(* parse_llm_response (src/header_para_mapping.py)                         *)

\* s.find(c): the index of the first c counted from 0, -1 for none
Find(s, c) == FindChar(s, c) - 1

\* s.rfind(c): the index of the last c counted from 0, -1 for none
RFind(s, c) ==
    IF \E i \in 1..Len(s) : s[i] = c
    THEN (CHOOSE i \in 1..Len(s) : s[i] = c /\ \A j \in (i + 1)..Len(s) : s[j] # c) - 1
    ELSE -1

\* s[a:b] for 0 <= a and 0 <= b <= len(s)
Slice(s, a, b) == SubSeq(s, a + 1, b)

\* the characters str.strip() removes, among the characters of the texts
PyWhitespace == {" ", "\t", "\n", "\r", "\f"}

\* {"error": "Could not parse JSON", "raw_response": response}
ErrorDict(raw) ==
    JObj(<< Item(<< "e", "r", "r", "o", "r" >>,
                 PyChars(<< "C", "o", "u", "l", "d", " ", "n", "o", "t", " ",
                            "p", "a", "r", "s", "e", " ", "J", "S", "O", "N" >>)),
            Item(<< "r", "a", "w", "_", "r", "e", "s", "p", "o", "n", "s", "e" >>,
                 PyChars(raw)) >>)

\* extract_with_prompt that lets the JSONDecodeError out
ExtractLoadsUncaught ==
    /\ p_pc = "et_loads"
    /\ LET r == json_loads(json_str)
       IN  /\ p_ret' = IF r.raised THEN p_ret ELSE r.value
           /\ p_pc' = IF r.raised THEN "et_raised" ELSE "et_returned"
    /\ UNCHANGED << p_arg, embedded, response, json_str >>
    /\ UNCHANGED << clientVars, remoteVars, batchVars, fmtVars, concVars, hpmVars >>

\* extract_with_prompt: find('{'), rfind('}') + 1, and the text json.loads
\* is given: the slice between them, or the whole stripped response
ExtractLocate ==
    /\ p_pc = "et_find"
    /\ LET json_start == Find(response, "{")
           json_end == RFind(response, "}") + 1
       IN  json_str' = IF json_start # -1 /\ json_end > json_start
                       THEN Slice(response, json_start, json_end)
                       ELSE Strip(response, PyWhitespace)
    /\ p_pc' = "et_loads"
    /\ UNCHANGED << p_arg, embedded, response, p_ret >>
    /\ UNCHANGED << clientVars, remoteVars, batchVars, fmtVars, concVars, hpmVars >>

\* extract_with_prompt: return json.loads(...), or the error dict after a
\* JSONDecodeError
ExtractLoads ==
    /\ p_pc = "et_loads"
    /\ LET r == json_loads(json_str)
       IN  p_ret' = IF r.raised THEN ErrorDict(response) ELSE r.value
    /\ p_pc' = "et_returned"
    /\ UNCHANGED << p_arg, embedded, response, json_str >>
    /\ UNCHANGED << clientVars, remoteVars, batchVars, fmtVars, concVars, hpmVars >>

\* parse_llm_response: re.search(r'\{.*\}', response, re.DOTALL), the
\* leftmost brace up to the last closing brace after it; None for no match
ParseSearch ==
    /\ p_pc = "hp_search"
    /\ LET st == Find(response, "{")
           en == RFind(response, "}")
       IN  IF st # -1 /\ en > st
           THEN /\ json_str' = Slice(response, st, en + 1)
                /\ p_pc' = "hp_loads"
                /\ UNCHANGED p_ret
           ELSE /\ p_ret' = PyNone
                /\ p_pc' = "hp_returned"
                /\ UNCHANGED json_str
    /\ UNCHANGED << p_arg, embedded, response >>
    /\ UNCHANGED << clientVars, remoteVars, batchVars, fmtVars, concVars, hpmVars >>

\* parse_llm_response: return json.loads(json_str), or None after a
\* JSONDecodeError
ParseLoads ==
    /\ p_pc = "hp_loads"
    /\ LET r == json_loads(json_str)
       IN  p_ret' = IF r.raised THEN PyNone ELSE r.value
    /\ p_pc' = "hp_returned"
    /\ UNCHANGED << p_arg, embedded, response, json_str >>
    /\ UNCHANGED << clientVars, remoteVars, batchVars, fmtVars, concVars, hpmVars >>

\* {"raw_response": response}
RawDict(raw) ==
    JObj(<< Item(<< "r", "a", "w", "_", "r", "e", "s", "p", "o", "n", "s", "e" >>,
                 PyChars(raw)) >>)

\* s[a:b] for -1 <= a and 0 <= b <= len(s): a negative start counts from
\* the end
PySlice(s, a, b) ==
    LET st == IF a < 0 THEN (IF Len(s) + a < 0 THEN 0 ELSE Len(s) + a) ELSE a
    IN  SubSeq(s, st + 1, b)

\* extract_with_prompt of src/extract_thinker_local_llama.py: find('{'),
\* rfind('}') + 1, a test that holds for every pair of them, and the slice
LlamaLocate ==
    /\ p_pc = "ll_find"
    /\ LET json_start == Find(response, "{")
           json_end == RFind(response, "}") + 1
       IN  IF json_start # -1 /\ json_end # -1
           THEN /\ json_str' = PySlice(response, json_start, json_end)
                /\ p_pc' = "ll_loads"
                /\ UNCHANGED p_ret
           ELSE /\ p_ret' = RawDict(response)
                /\ p_pc' = "ll_returned"
                /\ UNCHANGED json_str
    /\ UNCHANGED << p_arg, embedded, response >>
    /\ UNCHANGED << clientVars, remoteVars, batchVars, fmtVars, concVars, hpmVars >>

\* the same: return json.loads(json_str); any exception is passed over and
\* the raw response returned
LlamaLoads ==
    /\ p_pc = "ll_loads"
    /\ LET r == json_loads(json_str)
       IN  p_ret' = IF r.raised THEN RawDict(response) ELSE r.value
    /\ p_pc' = "ll_returned"
    /\ UNCHANGED << p_arg, embedded, response, json_str >>
    /\ UNCHANGED << clientVars, remoteVars, batchVars, fmtVars, concVars, hpmVars >>

----------------------------------------------------------------------------
(* The texts the three parsers are called with *)

\* texts without a brace that are no JSON document
Prose ==
    { << >>, << " " >>, << "h", "i" >>,
      << "n", "o", " ", "j", "s", "o", "n", "\n" >>,
      << "[", "1", "," >>, << "'", "x", "'" >>,
      Fence \o << "h", "i" >> \o Fence }

\* texts without a brace that are a JSON document
BraceFreeJson ==
    { << "4", "2" >>, << " ", "0", "\n" >>, << "[", "1", "]" >>,
      << "n", "u", "l", "l" >>, << "t", "r", "u", "e" >>,
      << "\"", "h", "i", "\"" >> }

\* texts with braces that hold no JSON object
Malformed ==
    { << "{" >>, << "}" >>, << "}", "{" >>, << "{", "a", "}" >>,
      << "{", "}", "{", "}" >>, << "x", "}", " ", "{" >>,
      << "{", "\"", "a", "\"", ":", "}" >> }

\* the prose before and after an object
ProseBefore == { << >>, << "S", "u", "r", "e", ":", " " >>, << "a", "\n" >> }
ProseAfter == { << >>, << " ", "o", "k", "." >>, << "\n" >> }

IsBlank(s) == \A i \in 1..Len(s) : s[i] \in PyWhitespace

ExtractInputs ==
    { [kind |-> "prose", text |-> t, obj |-> PyNone] : t \in Prose }
      \cup
    { [kind |-> "brace_free_json", text |-> t, obj |-> PyNone] : t \in BraceFreeJson }
      \cup
    { [kind |-> "malformed", text |-> t, obj |-> PyNone] : t \in Malformed }
      \cup
    { [kind |-> IF IsBlank(pre) /\ IsBlank(post) THEN "bare"
                ELSE IF ~IsBlank(pre) /\ ~IsBlank(post) THEN "prose_object_prose"
                ELSE "object_and_prose",
       text |-> pre \o Dumps(o, lay) \o post, obj |-> o] :
        o \in Objects, lay \in Layouts, pre \in ProseBefore, post \in ProseAfter }
      \cup
    { [kind |-> "fenced_json",
       text |-> FencedJson(Dumps(o, lay), << "\n" >>, << "\n" >>, << >>), obj |-> o] :
        o \in Objects, lay \in Layouts }

\* the first step of extract_json_from_response, of extract_with_prompt's
\* JSON recovery and of parse_llm_response
ParserEntries == {"sub_open", "et_find", "hp_search"}

\* one of the three parsers is called with a text
InitExtract ==
    /\ pc = "idle"
    /\ call = "none"
    /\ prompt = ""
    /\ use_async = FALSE
    /\ payload = NoPayload
    /\ output_location = PyNone
    /\ max_wait_time = 0
    /\ elapsed = 0
    /\ nAsync = 0
    /\ nSync = 0
    /\ nWait = 0
    /\ nPoll = 0
    /\ nSleep = 0
    /\ resp = RespNone
    /\ syncRet = PyNone
    /\ waitRet = PyNone
    /\ exit = "none"
    /\ log = LogNone
    /\ ret = PyNone
    /\ s3obj = Absent
    /\ jobAccepted = FALSE
    /\ prev = NoPrev
    /\ \E in \in ExtractInputs :
          /\ p_arg = in.text
          /\ embedded = [kind |-> in.kind, obj |-> in.obj]
          /\ response = in.text
    /\ p_pc \in ParserEntries
    /\ p_ret = PyNone
    /\ json_str = << >>
    /\ b_pc = "off"
    /\ prompts = << >>
    /\ b_use_async = FALSE
    /\ results = << >>
    /\ b_i = 0
    /\ nDelay = 0
    /\ f_pc = "off"
    /\ messages = << >>
    /\ formatted_prompt = ""
    /\ f_k = 0
    /\ fields = NoFields
    /\ thread = NoThreads
    /\ store = << >>
    /\ jobs = {}
    /\ x_pc = "off"
    /\ extractor = "none"
    /\ stages = << >>
    /\ llm_response = PyNone
    /\ parsed_data = PyNone
    /\ is_valid = FALSE
    /\ x_ret = PyNone
    /\ x_log = LogNone
    /\ m_pc = "off"
    /\ available = {}
    /\ parser_preference = "unset"
    /\ parser_type = "unset"
    /\ nSetup = 0
    /\ dispatched = [method |-> "none", markdown_text |-> ""]
    /\ h_pc = "off"
    /\ structure = << >>
    /\ current_section = PyNone
    /\ content_buffer = << >>
    /\ events = << >>

NextExtract ==
    \/ RemoveOpenFence
    \/ RemoveCloseFence
    \/ StripQuotes
    \/ LoadJson
    \/ ExtractLocate
    \/ ExtractLoads
    \/ ParseSearch
    \/ ParseLoads

SpecExtract == InitExtract /\ [][NextExtract]_vars

----------------------------------------------------------------------------
(* The three parsers that look for the braces: extract_with_prompt of      *)
(* src/extract_thinker.py and of src/extract_thinker_local_llama.py, and   *)
(* parse_llm_response                                                      *)

\* the first step of each
SelectEntries == {"et_find", "ll_find", "hp_search"}

\* one of them is called with a text
InitSelect ==
    /\ pc = "idle"
    /\ call = "none"
    /\ prompt = ""
    /\ use_async = FALSE
    /\ payload = NoPayload
    /\ output_location = PyNone
    /\ max_wait_time = 0
    /\ elapsed = 0
    /\ nAsync = 0
    /\ nSync = 0
    /\ nWait = 0
    /\ nPoll = 0
    /\ nSleep = 0
    /\ resp = RespNone
    /\ syncRet = PyNone
    /\ waitRet = PyNone
    /\ exit = "none"
    /\ log = LogNone
    /\ ret = PyNone
    /\ s3obj = Absent
    /\ jobAccepted = FALSE
    /\ prev = NoPrev
    /\ \E in \in ExtractInputs :
          /\ p_arg = in.text
          /\ embedded = [kind |-> in.kind, obj |-> in.obj]
          /\ response = in.text
    /\ p_pc \in SelectEntries
    /\ p_ret = PyNone
    /\ json_str = << >>
    /\ b_pc = "off"
    /\ prompts = << >>
    /\ b_use_async = FALSE
    /\ results = << >>
    /\ b_i = 0
    /\ nDelay = 0
    /\ f_pc = "off"
    /\ messages = << >>
    /\ formatted_prompt = ""
    /\ f_k = 0
    /\ fields = NoFields
    /\ thread = NoThreads
    /\ store = << >>
    /\ jobs = {}
    /\ x_pc = "off"
    /\ extractor = "none"
    /\ stages = << >>
    /\ llm_response = PyNone
    /\ parsed_data = PyNone
    /\ is_valid = FALSE
    /\ x_ret = PyNone
    /\ x_log = LogNone
    /\ m_pc = "off"
    /\ available = {}
    /\ parser_preference = "unset"
    /\ parser_type = "unset"
    /\ nSetup = 0
    /\ dispatched = [method |-> "none", markdown_text |-> ""]
    /\ h_pc = "off"
    /\ structure = << >>
    /\ current_section = PyNone
    /\ content_buffer = << >>
    /\ events = << >>

NextSelect ==
    \/ ExtractLocate
    \/ ExtractLoads
    \/ LlamaLocate
    \/ LlamaLoads
    \/ ParseSearch
    \/ ParseLoads

SpecSelect == InitSelect /\ [][NextSelect]_vars

----------------------------------------------------------------------------
(* Properties of the inference client *)

\* the asynchronous submission of the running infer call gave no output
\* location
SubmitFailed ==
    /\ call = "infer"
    /\ use_async
    /\ nAsync > 0
    /\ pc # "infer_branch"
    /\ ~Truthy(output_location)

\* C1: when invoke_async_endpoint yields no output location, infer with
\* use_async = TRUE calls invoke_sync_endpoint exactly once and returns what
\* it returned; it submits no second time and never polls.
C1_FallbackOnce ==
    SubmitFailed =>
        /\ nAsync = 1
        /\ nWait = 0
        /\ nPoll = 0
        /\ nSync <= 1
        /\ pc = "done" => (nSync = 1 /\ ret = syncRet)

C1_Witness ==
    /\ SubmitFailed
    /\ pc = "done"
    /\ nSync = 1
    /\ ret = PyStr("hello")

CeilDiv(a, b) == (a + b - 1) \div b

\* C2: with max_wait_time T greater than the poll interval p and an object
\* that never appears, wait_for_async_result returns through its timeout
\* branch only once the elapsed time has reached T, and by then it has made
\* no more than ceil(T / p) get_object requests.
C2_TimeoutBoundary ==
    (pc = "wait_returned" /\ exit = "wait_timeout" /\ PollInterval < max_wait_time) =>
        /\ waitRet = PyNone
        /\ elapsed >= max_wait_time
        /\ nPoll <= CeilDiv(max_wait_time, PollInterval)

C2_Witness ==
    /\ pc = "wait_returned"
    /\ exit = "wait_timeout"
    /\ PollInterval < max_wait_time
    /\ nPoll = CeilDiv(max_wait_time, PollInterval)
    /\ nPoll >= 2

\* C3: in wait_for_async_result only the answer 'not found' is followed by
\* a sleep and a further poll; after any other read error the call has
\* returned None at once, with no sleep and no request after the error.
C3_OnlyNotFoundRetried ==
    /\ pc = "wait_sleep" => resp = RespNoSuchKey
    /\ (pc = "wait_loop" /\ nPoll > 0) => resp = RespNoSuchKey
    /\ resp.k \in {"client_error", "error"} =>
          /\ pc = "wait_returned"
          /\ waitRet = PyNone
          /\ exit \in {"wait_s3_error", "wait_exception"}
          /\ nSleep = nPoll - 1

C3_Witness ==
    /\ pc = "wait_returned"
    /\ resp = RespClientError
    /\ exit = "wait_s3_error"
    /\ nPoll >= 2

WaitErrorExits == {"wait_s3_error", "wait_exception", "wait_unexpected"}

ServiceFailure ==
    \/ resp.k \in {"client_error", "error"}
    \/ resp.k = "ok" /\ resp.body \notin GoodEnvelopes

\* C5: every transport, auth or malformed-envelope failure of
\* invoke_sync_endpoint and of wait_for_async_result reaches the caller as
\* a logged error value that is no text, so that it cannot be taken for a
\* successful result.
C5_ServiceErrorSurfaced ==
    /\ (pc = "sync_returned" /\ ServiceFailure) =>
          (syncRet.t # "str" /\ log # LogNone)
    /\ (pc = "wait_returned" /\ nPoll > 0 /\ ServiceFailure) =>
          (waitRet.t # "str" /\ log # LogNone)

\* C6: for a decoded envelope that is neither a one-element list of
\* {generated_text: string} nor an object {generated_text: string},
\* invoke_sync_endpoint reports an error and never returns a text.
C6_MalformedEnvelopeIsError ==
    (pc = "sync_returned" /\ resp.k = "ok" /\ resp.body \in OddEnvelopes) =>
        (syncRet = PyNone /\ exit # "sync_text")

\* C7: for every string s, the envelopes [{generated_text: s}] and
\* {generated_text: s} make invoke_sync_endpoint return s unchanged.
C7_GeneratedTextReturned ==
    pc = "sync_returned" =>
        \A s \in Texts :
            resp \in {RespOk(JList(<<JDict(TRUE, PyStr(s))>>)),
                      RespOk(JDict(TRUE, PyStr(s)))}
              => (syncRet = PyStr(s) /\ exit = "sync_text")

C7_Witness ==
    /\ pc = "sync_returned"
    /\ resp = RespOk(JDict(TRUE, PyStr(" hi\n")))
    /\ syncRet = PyStr(" hi\n")

WaitReadExits == {"wait_text", "wait_unexpected"}

\* C8: no step of wait_for_async_result creates, changes or deletes the
\* remote object or the remote job, whether it polls, sleeps, times out or
\* returns; and a call that reads the object returns the value that the
\* previous call that read it returned.
C8_PollingReadOnly ==
    [][ /\ clientVars' # clientVars => (s3obj' = s3obj /\ jobAccepted' = jobAccepted)
        /\ (pc' = "wait_returned" /\ exit' \in WaitReadExits
              /\ prev'.exit \in WaitReadExits) => waitRet' = prev'.ret ]_vars

C8_Witness ==
    /\ pc = "wait_returned"
    /\ exit = "wait_text"
    /\ prev.exit = "wait_text"
    /\ waitRet = PyStr("hello")
    /\ prev.ret = waitRet
    /\ nPoll >= 1

\* C9: every call of infer returns the outcome of exactly one of its two
\* paths: either wait_for_async_result was called once and its value is
\* returned, or invoke_sync_endpoint was called once and its value is
\* returned, never both.
C9_OneResultPerRequest ==
    call = "infer" =>
        /\ nWait + nSync <= 1
        /\ pc = "done" =>
              \/ nWait = 1 /\ nSync = 0 /\ ret = waitRet
              \/ nWait = 0 /\ nSync = 1 /\ ret = syncRet

C9_Witness ==
    /\ call = "infer"
    /\ pc = "done"
    /\ nWait = 1
    /\ nPoll >= 2
    /\ ret = PyStr("hello")

----------------------------------------------------------------------------
(* Properties of the response parser *)

----------------------------------------------------------------------------
(* Properties of the three parsers *)

ParserLabels ==
    {"sub_open", "sub_close", "strip", "loads", "returned",
     "et_find", "et_loads", "et_returned", "hp_search", "hp_loads", "hp_returned"}

ParserReturned == p_pc \in {"returned", "et_returned", "hp_returned"}

\* json.loads raised on the text the parser gave it, or the parser found
\* nothing to give it
ParseFailed ==
    /\ ParserReturned
    /\ json_loads(IF p_pc = "returned" THEN response ELSE json_str).raised

\* C11: for a text that holds neither brace every parser returns a failure
\* value that carries the text it was given, and never a parsed value.
C11_BraceFreeIsFailure ==
    (ParserReturned /\ embedded.kind \in {"prose", "brace_free_json"}) =>
        p_ret = ErrorDict(p_arg)

\* C12: for brace-free prose, one JSON object and brace-free prose again,
\* every parser returns exactly that object.
C12_ProseWrappedObject ==
    (ParserReturned /\ embedded.kind = "prose_object_prose") =>
        p_ret = embedded.obj

C14_FailureKeepsText ==
    ParseFailed => p_ret = ErrorDict(p_arg)

----------------------------------------------------------------------------
(* Properties of batch_infer *)

\* C15: batch_infer goes through the prompts one after another in their
\* order: an infer call starts for prompt k only when k - 1 results have
\* been appended and k - 1 pauses made; each entry appended is the value
\* the infer call for the prompt at that position has just returned, None
\* included; the list returned has one entry per prompt and one pause less
\* than prompts were made, none after the last prompt.
C15_BatchInOrder ==
    /\ [](b_pc = "returned" =>
            /\ Len(results) = Len(prompts)
            /\ nDelay = IF Len(prompts) = 0 THEN 0 ELSE Len(prompts) - 1)
    /\ [][ /\ (call # "infer" /\ call' = "infer") =>
                /\ Len(results) < Len(prompts)
                /\ prompt' = prompts[Len(results) + 1]
                /\ use_async' = b_use_async
                /\ nDelay = Len(results)
           /\ results' # results =>
                /\ call = "infer" /\ pc = "done"
                /\ prompt = prompts[Len(results) + 1]
                /\ results' = Append(results, ret) ]_vars

C15_Witness ==
    /\ b_pc = "returned"
    /\ prompts = << "p2", "p1" >>
    /\ results = << PyNone, PyStr("hello") >>
    /\ nDelay = 1

----------------------------------------------------------------------------
(* Further properties of the inference client *)

\* C16: with use_async = FALSE infer sends no invoke_endpoint_async request,
\* never calls wait_for_async_result and never polls; it calls
\* invoke_sync_endpoint once and returns what that call returned.
C16_SyncDirect ==
    (call = "infer" /\ ~use_async) =>
        /\ nAsync = 0
        /\ nWait = 0
        /\ nPoll = 0
        /\ nSync <= 1
        /\ pc = "done" => (nSync = 1 /\ ret = syncRet)

C16_Witness ==
    /\ call = "infer"
    /\ ~use_async
    /\ pc = "done"
    /\ nSync = 1
    /\ ret = PyStr(" hi\n")

\* C17: when get_object delivers the object, wait_for_async_result returns
\* for its body what invoke_sync_endpoint returns for a response with that
\* body: the same text, and None in the same cases.
C17_WaitParsesLikeSync ==
    (pc = "wait_returned" /\ nPoll > 0 /\ resp.k = "ok") =>
        waitRet = SyncResult(resp).ret

C17_Witness ==
    /\ pc = "wait_returned"
    /\ resp = RespOk(JDict(TRUE, PyStr(" hi\n")))
    /\ waitRet = PyStr(" hi\n")

----------------------------------------------------------------------------
(* Properties of the prompt format *)

ChatRoles == {"system", "user", "assistant"}

\* a role-delimited block, closed by the end-of-turn marker
Turn(role, content) ==
    "<|start_header_id|>" \o role \o "<|end_header_id|>\n\n" \o content \o "<|eot_id|>"

\* the assistant marker the response is to follow, left open
OpenAssistant == "<|start_header_id|>" \o "assistant" \o "<|end_header_id|>\n\n"

\* the blocks of the system, user and assistant messages, in their order; a
\* message without a role is a user message
RECURSIVE Turns(_)
Turns(ms) ==
    IF ms = << >> THEN ""
    ELSE LET m == Head(ms)
             role == IF "role" \in DOMAIN m THEN m.role ELSE "user"
             content == IF "content" \in DOMAIN m THEN m.content ELSE ""
         IN  (IF role \in ChatRoles THEN Turn(role, content) ELSE "") \o Turns(Tail(ms))

SystemText ==
    "You are an expert at extracting structured data from invoices. "
      \o "Extract the requested information accurately and return it as valid JSON."

\* C18: the prompt _format_messages_for_llama returns is the begin marker,
\* then one block per system, user or assistant message, in the order of
\* the messages, each closed by the end-of-turn marker, then the open
\* assistant marker with nothing after it; the prompt prepare_llama_payload
\* builds has that form for its system text and the user's prompt.
C18_PromptBlocksInOrder ==
    /\ f_pc = "returned" =>
          formatted_prompt = "<|begin_of_text|>" \o Turns(messages) \o OpenAssistant
    /\ \A p \in Prompts :
          prepare_llama_payload(p).inputs =
            "<|begin_of_text|>"
              \o Turns(<< [role |-> "system", content |-> SystemText],
                          [role |-> "user", content |-> p] >>)
              \o OpenAssistant

C18_Witness ==
    /\ f_pc = "returned"
    /\ messages = << [role |-> "system", content |-> "hi"],
                     [role |-> "assistant", content |-> "hi"],
                     [role |-> "user", content |-> "hi"] >>
    /\ formatted_prompt =
         "<|begin_of_text|>" \o Turn("system", "hi") \o Turn("assistant", "hi")
           \o Turn("user", "hi") \o OpenAssistant

\* C20: the time wait_for_async_result spends in time.sleep, summed over
\* the call, never exceeds max_wait_time.
C20_SuspensionBounded ==
    (call = "wait" /\ nSleep > 0) => nSleep * SleepTime <= max_wait_time

----------------------------------------------------------------------------
(* Properties of concurrent calls *)

\* C19: no step of an infer call changes a field of the LLMInference
\* object; and however two calls interleave, each sends requests that
\* carry the payload of its own prompt and the configured parameters, reads
\* the key of its own job only, and returns what the last response to its
\* own request yields.
C19_NoSharedMutableState ==
    /\ [][fields' = fields]_vars
    /\ [](\A th \in Threads :
            LET t == thread[th]
            IN  /\ t.pc # "idle" => t.payload = prepare_llama_payload(t.prompt)
                /\ t.request.op \in {"invoke_endpoint", "invoke_endpoint_async"} =>
                      /\ t.request.payload = prepare_llama_payload(t.prompt)
                      /\ t.request.EndpointName = EndpointName
                /\ t.request.op = "get_object" => t.request.Key = << th >>
                /\ t.pc = "done" =>
                      t.ret = IF t.request.op = "invoke_endpoint_async" THEN PyNone
                              ELSE SyncResult(t.resp).ret)

C19_Witness ==
    /\ thread["1"].pc = "done"
    /\ thread["2"].pc = "done"
    /\ thread["1"].prompt = "p1"
    /\ thread["2"].prompt = "p2"
    /\ thread["1"].request.op = "get_object"
    /\ thread["2"].request.op = "get_object"
    /\ thread["1"].ret = PyStr("hello")
    /\ thread["2"].ret = PyStr("")

----------------------------------------------------------------------------
(* Properties of the inference client, continued *)

\* C21: invoke_sync_endpoint sends its invoke_endpoint request once: when
\* it has returned, one request has been sent, whether the endpoint
\* answered with a text, with a ClientError, with another error or with a
\* malformed envelope; before it is called none has been sent.
C21_SyncSendsOnce ==
    /\ pc = "invoke_sync" => nSync = 0
    /\ pc = "sync_returned" => nSync = 1
    /\ nSync <= 1

C21_Witness ==
    /\ pc = "sync_returned"
    /\ resp = RespClientError
    /\ nSync = 1
    /\ syncRet = PyNone

----------------------------------------------------------------------------
(* Properties of the brace-locating parsers *)

\* the text holds both braces and its first '{' precedes its last '}'
HasBracePair(s) == Find(s, "{") # -1 /\ RFind(s, "}") > Find(s, "{")

\* the candidate of the text: from the first '{' to the last '}' inclusive,
\* or the whole trimmed text when there is no such pair
Candidate(s) ==
    IF HasBracePair(s)
    THEN Slice(s, Find(s, "{"), RFind(s, "}") + 1)
    ELSE Strip(s, PyWhitespace)

\* C22: each of the three parsers gives json.loads the candidate of its
\* text, the substring from the first '{' to the last '}' when the first
\* precedes the last and the whole trimmed text otherwise, and returns the
\* value json.loads makes of it when it is a JSON document.
C22_CandidateSelection ==
    p_pc \in {"et_returned", "ll_returned", "hp_returned"} =>
        /\ json_str = Candidate(p_arg)
        /\ ~json_loads(Candidate(p_arg)).raised =>
              p_ret = json_loads(Candidate(p_arg)).value

\* C23: in infer with use_async = TRUE, once invoke_async_endpoint has
\* returned, invoke_sync_endpoint is called if and only if the location
\* returned is None or empty, an accepted submission without OutputLocation
\* included; with a non-empty location infer returns what
\* wait_for_async_result returned, None after a timeout, a read error or a
\* malformed result, and no synchronous request is sent.
C23_SyncIffNoLocation ==
    (call = "infer" /\ use_async /\ nAsync > 0 /\ pc # "infer_branch") =>
        /\ Truthy(output_location) =>
              /\ nSync = 0
              /\ pc \notin {"invoke_sync", "sync_returned"}
              /\ pc = "done" => (nWait = 1 /\ ret = waitRet)
        /\ ~Truthy(output_location) =>
              /\ nWait = 0
              /\ pc \in {"invoke_sync", "sync_returned", "done"}
              /\ pc = "done" => nSync = 1

C23_Witness ==
    /\ call = "infer"
    /\ use_async
    /\ pc = "done"
    /\ output_location = PyChars(LocOk)
    /\ resp = RespClientError
    /\ exit = "wait_s3_error"
    /\ ret = PyNone
    /\ nSync = 0

----------------------------------------------------------------------------
(* Properties of the payload of a call *)

\* C24: infer prepares its payload once: from the first step of a call on
\* no step changes the payload, the failed asynchronous submission
\* included, and the request of the synchronous fallback carries the same
\* payload, formatted prompt and parameters, as the asynchronous request
\* sent before it.
C24_PayloadBuiltOnce ==
    [][\A th \in Threads :
          /\ thread[th].pc # "idle" => thread'[th].payload = thread[th].payload
          /\ (thread[th].request.op = "invoke_endpoint_async"
                /\ thread'[th].request.op = "invoke_endpoint") =>
                thread'[th].request.payload = thread[th].request.payload]_vars

C24_Witness ==
    /\ thread["1"].pc = "done"
    /\ thread["1"].use_async
    /\ thread["1"].prompt = "p1"
    /\ thread["1"].request.op = "invoke_endpoint"
    /\ thread["1"].request.payload = prepare_llama_payload("p1")
    /\ thread["1"].ret = PyStr("hello")

----------------------------------------------------------------------------
(* Properties of wait_for_async_result, continued *)

\* C25: a call of wait_for_async_result with max_wait_time <= 0 requests
\* no get_object and sleeps at no time; it returns None, and for a location
\* s3://bucket/key it returns through the timeout branch with the timeout
\* message, also when the result object is there.
C25_NoWaitNoRead ==
    (call = "wait" /\ max_wait_time <= 0) =>
        /\ nPoll = 0
        /\ nSleep = 0
        /\ pc = "wait_returned" =>
              /\ waitRet = PyNone
              /\ output_location = PyChars(LocOk) =>
                    (exit = "wait_timeout" /\ log = LogTimeout)

C25_Witness ==
    /\ call = "wait"
    /\ max_wait_time = 0
    /\ output_location = PyChars(LocOk)
    /\ s3obj = JDict(TRUE, PyStr("hello"))
    /\ pc = "wait_returned"
    /\ exit = "wait_timeout"
    /\ nPoll = 0

\* the location does not start with 's3://', or names a bucket and no key
BadLocation(l) ==
    \/ ~StartsWith(l, S3Prefix)
    \/ FindChar(DropFirst(l, 5), "/") = 0

\* C26: wait_for_async_result called with a location that does not start
\* with 's3://', or that has a bucket and no '/key', returns None through
\* one of its own return statements: it never enters the loop, requests no
\* get_object and does not sleep.
C26_BadLocationNoRead ==
    (call = "wait" /\ BadLocation(output_location.chars)) =>
        /\ pc \in {"wait_enter", "wait_returned"}
        /\ nPoll = 0
        /\ nSleep = 0
        /\ pc = "wait_returned" =>
              /\ waitRet = PyNone
              /\ exit \in {"wait_invalid_location", "wait_exception"}

C26_Witness ==
    /\ call = "wait"
    /\ output_location = PyChars(LocNoKey)
    /\ max_wait_time = MaxWait
    /\ s3obj # Absent
    /\ pc = "wait_returned"
    /\ exit = "wait_exception"
    /\ waitRet = PyNone

----------------------------------------------------------------------------
(* extract_invoice_data of DynamicInvoiceExtractor and of InvoiceExtractor *)
(* (src/header_para_mapping.py)                                            *)

Extractors == {"DynamicInvoiceExtractor", "InvoiceExtractor"}

LogNoResponse == "No response from LLM"
LogParseFailed == "Failed to parse LLM response"
LogValidationWarnings == "Data validation warnings"
LogValidationFailed == "Extracted data validation failed"
LogExtractionError == "Error during invoice extraction"
LogExtracted == "Successfully extracted"

KeyInvoiceNumber == << "i", "n", "v", "o", "i", "c", "e", "_", "n", "u", "m", "b",
         "e", "r" >>
KeyLineItems == << "l", "i", "n", "e", "_", "i", "t", "e", "m", "s" >>
KeyId == << "i", "d" >>
KeyDescription == << "d", "e", "s", "c", "r", "i", "p", "t", "i", "o", "n" >>
KeyShipperAddress == << "s", "h", "i", "p", "p", "e", "r", "_", "a", "d", "d", "r",
         "e", "s", "s" >>

\* key in d, and d[key], for a dict d
DictHas(d, key) == \E i \in 1..Len(d.items) : d.items[i].k = key
DictGet(d, key) == d.items[CHOOSE i \in 1..Len(d.items) : d.items[i].k = key].v

\* parse_llm_response: the text from the leftmost '{' to the last '}' is
\* given to json.loads; None for no match and after a JSONDecodeError
parse_llm_response(r) ==
    LET st == Find(r, "{")
        en == RFind(r, "}")
    IN  IF st # -1 /\ en > st
        THEN LET j == json_loads(Slice(r, st, en + 1))
             IN  IF j.raised THEN PyNone ELSE j.value
        ELSE PyNone

\* not v, for the values parse_llm_response returns
Falsy(v) == v = PyNone \/ (v.t = "obj" /\ v.items = << >>)

\* InvoiceExtractor.validate_extracted_data
validate_extracted_data(data) ==
    /\ data.t = "obj"
    /\ DictHas(data, KeyInvoiceNumber)
    /\ DictHas(data, KeyLineItems)
    /\ DictGet(data, KeyInvoiceNumber).t = "str"
    /\ Strip(DictGet(data, KeyInvoiceNumber).chars, PyWhitespace) # << >>
    /\ DictGet(data, KeyLineItems).t = "arr"
    /\ \A i \in 1..Len(DictGet(data, KeyLineItems).elems) :
          LET item == DictGet(data, KeyLineItems).elems[i]
          IN  /\ item.t = "obj"
              /\ \A field \in {KeyId, KeyDescription, KeyShipperAddress} :
                    DictHas(item, field) /\ DictGet(item, field).t = "str"

\* LineItem(id, description, shipper_address) of every item, and
\* InvoiceData(invoice_number, line_items)
InvoiceData(data) ==
    [ t |-> "InvoiceData",
      invoice_number |-> DictGet(data, KeyInvoiceNumber),
      line_items |->
          [ i \in 1..Len(DictGet(data, KeyLineItems).elems) |->
              LET item == DictGet(data, KeyLineItems).elems[i]
              IN  [ id |-> DictGet(item, KeyId),
                    description |-> DictGet(item, KeyDescription),
                    shipper_address |-> DictGet(item, KeyShipperAddress) ] ] ]

\* ExtractedInvoiceData() with fields = parsed_data
ExtractedInvoiceData(data) == [t |-> "ExtractedInvoiceData", fields |-> data]

\* a return statement of extract_invoice_data
ExtractFinish(l, v) ==
    /\ x_pc' = "returned"
    /\ x_log' = l
    /\ x_ret' = v

\* the except branch of extract_invoice_data
ExtractExcept == ExtractFinish(LogExtractionError, PyNone)

\* prompt = self.create_extraction_prompt(invoice_text); raises tells
\* whether the method raised
CreatePrompt(raises) ==
    /\ x_pc = "called"
    /\ stages' = Append(stages, "create_extraction_prompt")
    /\ IF raises THEN ExtractExcept
       ELSE /\ x_pc' = "infer"
            /\ UNCHANGED << x_log, x_ret >>
    /\ UNCHANGED << extractor, llm_response, parsed_data, is_valid >>
    /\ UNCHANGED << clientVars, remoteVars, parserVars, batchVars, fmtVars, concVars,
                    otherThanEx >>

\* llm_response = self.llm_inference.infer(prompt), which returns r, and
\* the test of it
ExtractInfer(r) ==
    /\ x_pc = "infer"
    /\ stages' = Append(stages, "infer")
    /\ llm_response' = r
    /\ IF ~Truthy(r) THEN ExtractFinish(LogNoResponse, PyNone)
       ELSE /\ x_pc' = "parse"
            /\ UNCHANGED << x_log, x_ret >>
    /\ UNCHANGED << extractor, parsed_data, is_valid >>
    /\ UNCHANGED << clientVars, remoteVars, parserVars, batchVars, fmtVars, concVars,
                    otherThanEx >>

\* ExtractParse that goes on unless the parsed data is None
ExtractParseNotNone(raises) ==
    /\ x_pc = "parse"
    /\ stages' = Append(stages, "parse_llm_response")
    /\ IF raises
       THEN /\ ExtractExcept
            /\ UNCHANGED parsed_data
       ELSE /\ parsed_data' = parse_llm_response(llm_response.chars)
            /\ IF parsed_data' = PyNone THEN ExtractFinish(LogParseFailed, PyNone)
               ELSE /\ x_pc' = "validate"
                    /\ UNCHANGED << x_log, x_ret >>
    /\ UNCHANGED << extractor, llm_response, is_valid >>
    /\ UNCHANGED << clientVars, remoteVars, parserVars, batchVars, fmtVars, concVars,
                    otherThanEx >>

\* parsed_data = self.parse_llm_response(llm_response) and the test of it;
\* raises tells whether an exception other than JSONDecodeError came up
ExtractParse(raises) ==
    /\ x_pc = "parse"
    /\ stages' = Append(stages, "parse_llm_response")
    /\ IF raises
       THEN /\ ExtractExcept
            /\ UNCHANGED parsed_data
       ELSE /\ parsed_data' = parse_llm_response(llm_response.chars)
            /\ IF Falsy(parsed_data') THEN ExtractFinish(LogParseFailed, PyNone)
               ELSE /\ x_pc' = "validate"
                    /\ UNCHANGED << x_log, x_ret >>
    /\ UNCHANGED << extractor, llm_response, is_valid >>
    /\ UNCHANGED << clientVars, remoteVars, parserVars, batchVars, fmtVars, concVars,
                    otherThanEx >>

\* DynamicInvoiceExtractor: validate_extracted_data against the field
\* definitions of the configuration, which finds the data valid or not
\* (v) or raises; a warning is logged and the data kept
DynamicValidate(v, raises) ==
    /\ x_pc = "validate"
    /\ extractor = "DynamicInvoiceExtractor"
    /\ stages' = Append(stages, "validate_extracted_data")
    /\ IF raises
       THEN /\ ExtractExcept
            /\ UNCHANGED is_valid
       ELSE /\ is_valid' = v
            /\ x_pc' = "build"
            /\ x_log' = IF v THEN x_log ELSE LogValidationWarnings
            /\ UNCHANGED x_ret
    /\ UNCHANGED << extractor, llm_response, parsed_data >>
    /\ UNCHANGED << clientVars, remoteVars, parserVars, batchVars, fmtVars, concVars,
                    otherThanEx >>

\* InvoiceExtractor: validate_extracted_data, and None when it says False
FixedValidate ==
    /\ x_pc = "validate"
    /\ extractor = "InvoiceExtractor"
    /\ stages' = Append(stages, "validate_extracted_data")
    /\ is_valid' = validate_extracted_data(parsed_data)
    /\ IF ~is_valid' THEN ExtractFinish(LogValidationFailed, PyNone)
       ELSE /\ x_pc' = "build"
            /\ UNCHANGED << x_log, x_ret >>
    /\ UNCHANGED << extractor, llm_response, parsed_data >>
    /\ UNCHANGED << clientVars, remoteVars, parserVars, batchVars, fmtVars, concVars,
                    otherThanEx >>

\* the result object is made and returned
ExtractBuild ==
    /\ x_pc = "build"
    /\ ExtractFinish(LogExtracted,
                     IF extractor = "InvoiceExtractor" THEN InvoiceData(parsed_data)
                     ELSE ExtractedInvoiceData(parsed_data))
    /\ UNCHANGED << extractor, stages, llm_response, parsed_data, is_valid >>
    /\ UNCHANGED << clientVars, remoteVars, parserVars, batchVars, fmtVars, concVars,
                    otherThanEx >>

\* JSON objects an LLM answers with
InvoiceNoItems ==
    JObj(<< Item(KeyInvoiceNumber, PyChars(<< "7" >>)), Item(KeyLineItems, JArr(<< >>)) >>)
InvoiceOneItem ==
    JObj(<< Item(KeyInvoiceNumber, PyChars(<< "7" >>)),
            Item(KeyLineItems,
                 JArr(<< JObj(<< Item(KeyId, PyChars(<< "1" >>)),
                                 Item(KeyDescription, PyChars(<< "x" >>)),
                                 Item(KeyShipperAddress, PyChars(<< >>)) >>) >>)) >>)
InvoiceBlankNumber ==
    JObj(<< Item(KeyInvoiceNumber, PyChars(<< " " >>)), Item(KeyLineItems, JArr(<< >>)) >>)
InvoiceItemNoId ==
    JObj(<< Item(KeyInvoiceNumber, PyChars(<< "7" >>)),
            Item(KeyLineItems, JArr(<< JObj(<< Item(KeyDescription, JNum(1)) >>) >>)) >>)

ResponseObjects ==
    { JObj(<< >>), JObj(<< Item(<< "a" >>, JNum(1)) >>),
      InvoiceNoItems, InvoiceOneItem, InvoiceBlankNumber, InvoiceItemNoId }

\* what infer returns: None, the empty text, or a text
LlmResponses ==
    { PyNone, PyChars(<< >>) }
      \cup { PyChars(t) : t \in Prose \cup Malformed }
      \cup { PyChars(pre \o Dumps(o, lay) \o post) :
               o \in ResponseObjects, lay \in Layouts,
               pre \in {<< >>, << "S", "u", "r", "e", ":", " " >>},
               post \in {<< >>, << "\n" >>} }

\* extract_invoice_data is called on an extractor
InitInvoice ==
    /\ pc = "idle"
    /\ call = "none"
    /\ prompt = ""
    /\ use_async = FALSE
    /\ payload = NoPayload
    /\ output_location = PyNone
    /\ max_wait_time = 0
    /\ elapsed = 0
    /\ nAsync = 0
    /\ nSync = 0
    /\ nWait = 0
    /\ nPoll = 0
    /\ nSleep = 0
    /\ resp = RespNone
    /\ syncRet = PyNone
    /\ waitRet = PyNone
    /\ exit = "none"
    /\ log = LogNone
    /\ ret = PyNone
    /\ s3obj = Absent
    /\ jobAccepted = FALSE
    /\ prev = NoPrev
    /\ p_pc = "off"
    /\ p_arg = << >>
    /\ embedded = [kind |-> "none", obj |-> PyNone]
    /\ response = << >>
    /\ p_ret = PyNone
    /\ json_str = << >>
    /\ b_pc = "off"
    /\ prompts = << >>
    /\ b_use_async = FALSE
    /\ results = << >>
    /\ b_i = 0
    /\ nDelay = 0
    /\ f_pc = "off"
    /\ messages = << >>
    /\ formatted_prompt = ""
    /\ f_k = 0
    /\ fields = NoFields
    /\ thread = NoThreads
    /\ store = << >>
    /\ jobs = {}
    /\ x_pc = "called"
    /\ extractor \in Extractors
    /\ stages = << >>
    /\ llm_response = PyNone
    /\ parsed_data = PyNone
    /\ is_valid = FALSE
    /\ x_ret = PyNone
    /\ x_log = LogNone
    /\ m_pc = "off"
    /\ available = {}
    /\ parser_preference = "unset"
    /\ parser_type = "unset"
    /\ nSetup = 0
    /\ dispatched = [method |-> "none", markdown_text |-> ""]
    /\ h_pc = "off"
    /\ structure = << >>
    /\ current_section = PyNone
    /\ content_buffer = << >>
    /\ events = << >>

NextInvoice ==
    \/ \E raises \in BOOLEAN : CreatePrompt(raises)
    \/ \E r \in LlmResponses : ExtractInfer(r)
    \/ \E raises \in BOOLEAN : ExtractParse(raises)
    \/ \E v \in BOOLEAN, raises \in BOOLEAN : DynamicValidate(v, raises)
    \/ FixedValidate
    \/ ExtractBuild

SpecInvoice == InitInvoice /\ [][NextInvoice]_vars

----------------------------------------------------------------------------
(* Properties of extract_invoice_data *)

StageOrder ==
    << "create_extraction_prompt", "infer", "parse_llm_response",
       "validate_extracted_data" >>

Called(stage) == \E i \in 1..Len(stages) : stages[i] = stage

\* C27: extract_invoice_data calls its stages in the order prompt, infer,
\* parse, validate, each once at most, and always ends in a return
\* statement: after infer gave None or the empty text the parser has not
\* been called and None is returned; after the parser gave None or the
\* empty object the validation has not been run and None is returned; after
\* an exception in a stage None is returned; and a result object is only
\* returned when all four stages have been called.
C27_StagesStopAtFirstFailure ==
    /\ x_pc \in {"called", "infer", "parse", "validate", "build", "returned"}
    /\ Len(stages) <= Len(StageOrder)
    /\ stages = SubSeq(StageOrder, 1, Len(stages))
    /\ x_pc = "returned" =>
          /\ (Called("infer") /\ ~Truthy(llm_response)) =>
                (~Called("parse_llm_response") /\ x_ret = PyNone)
          /\ (Called("parse_llm_response") /\ Falsy(parsed_data)) =>
                (~Called("validate_extracted_data") /\ x_ret = PyNone)
          /\ x_log = LogExtractionError => x_ret = PyNone
          /\ x_ret # PyNone => stages = StageOrder

C27_Witness ==
    /\ x_pc = "returned"
    /\ extractor = "DynamicInvoiceExtractor"
    /\ llm_response = PyChars(<< "S", "u", "r", "e", ":", " ", "{", "}", "\n" >>)
    /\ parsed_data = JObj(<< >>)
    /\ stages = SubSeq(StageOrder, 1, 3)
    /\ x_log = LogParseFailed
    /\ x_ret = PyNone

----------------------------------------------------------------------------
(* HeaderParagraphMapper: the choice of the markdown backend               *)
(* (src/header_para_mapping.py)                                            *)

\* MARKDOWN_ANALYSIS_AVAILABLE, MISTUNE_AVAILABLE, MARKDOWN_AVAILABLE: the
\* libraries that can be there
Libraries == {"markdown_analysis", "mistune", "markdown"}

Preferences == {"auto", "mistune", "markdown_analysis", "markdown", "commonmark"}

MarkdownTexts == {"", "# h\n\np\n"}

\* _setup_parser that looks for mistune first
setup_parser_mistune_first(preference, avail) ==
    IF preference = "auto"
    THEN IF "mistune" \in avail
         THEN [raised |-> "none", parser_type |-> "mistune"]
         ELSE IF "markdown_analysis" \in avail
         THEN [raised |-> "none", parser_type |-> "markdown_analysis"]
         ELSE IF "markdown" \in avail
         THEN [raised |-> "none", parser_type |-> "markdown"]
         ELSE [raised |-> "ImportError", parser_type |-> "unset"]
    ELSE [raised |-> "none", parser_type |-> preference]

\* _setup_parser: the parser_type it stores, or the exception it raises
setup_parser(preference, avail) ==
    IF preference = "auto"
    THEN IF "markdown_analysis" \in avail
         THEN [raised |-> "none", parser_type |-> "markdown_analysis"]
         ELSE IF "mistune" \in avail
         THEN [raised |-> "none", parser_type |-> "mistune"]
         ELSE IF "markdown" \in avail
         THEN [raised |-> "none", parser_type |-> "markdown"]
         ELSE [raised |-> "ImportError", parser_type |-> "unset"]
    ELSE [raised |-> "none", parser_type |-> preference]

\* HeaderParagraphMapper(parser_preference): the field is stored and
\* _setup_parser called
Construct(preference) ==
    /\ m_pc = "new"
    /\ parser_preference' = preference
    /\ nSetup' = nSetup + 1
    /\ LET r == setup_parser(preference, available)
       IN  /\ parser_type' = r.parser_type
           /\ m_pc' = IF r.raised = "none" THEN "constructed" ELSE r.raised
    /\ UNCHANGED << available, dispatched >>
    /\ UNCHANGED << clientVars, remoteVars, parserVars, batchVars, fmtVars, concVars,
                    otherThanMap >>

\* parse_with_library(markdown_text): the method it hands the text to, or
\* the ValueError
ParseWithLibrary(markdown_text) ==
    /\ m_pc \in {"constructed", "dispatched"}
    /\ dispatched' =
          [ method |-> IF parser_type = "markdown_analysis"
                       THEN "_parse_with_markdown_analysis"
                       ELSE IF parser_type = "mistune" THEN "_parse_with_mistune"
                       ELSE IF parser_type = "markdown" THEN "_parse_with_markdown"
                       ELSE "ValueError",
            markdown_text |-> markdown_text ]
    /\ m_pc' = "dispatched"
    /\ UNCHANGED << available, parser_preference, parser_type, nSetup >>
    /\ UNCHANGED << clientVars, remoteVars, parserVars, batchVars, fmtVars, concVars,
                    otherThanMap >>

\* the module is imported with some of the libraries installed, and a
\* mapper is about to be constructed
InitMapper ==
    /\ pc = "idle"
    /\ call = "none"
    /\ prompt = ""
    /\ use_async = FALSE
    /\ payload = NoPayload
    /\ output_location = PyNone
    /\ max_wait_time = 0
    /\ elapsed = 0
    /\ nAsync = 0
    /\ nSync = 0
    /\ nWait = 0
    /\ nPoll = 0
    /\ nSleep = 0
    /\ resp = RespNone
    /\ syncRet = PyNone
    /\ waitRet = PyNone
    /\ exit = "none"
    /\ log = LogNone
    /\ ret = PyNone
    /\ s3obj = Absent
    /\ jobAccepted = FALSE
    /\ prev = NoPrev
    /\ p_pc = "off"
    /\ p_arg = << >>
    /\ embedded = [kind |-> "none", obj |-> PyNone]
    /\ response = << >>
    /\ p_ret = PyNone
    /\ json_str = << >>
    /\ b_pc = "off"
    /\ prompts = << >>
    /\ b_use_async = FALSE
    /\ results = << >>
    /\ b_i = 0
    /\ nDelay = 0
    /\ f_pc = "off"
    /\ messages = << >>
    /\ formatted_prompt = ""
    /\ f_k = 0
    /\ fields = NoFields
    /\ thread = NoThreads
    /\ store = << >>
    /\ jobs = {}
    /\ x_pc = "off"
    /\ extractor = "none"
    /\ stages = << >>
    /\ llm_response = PyNone
    /\ parsed_data = PyNone
    /\ is_valid = FALSE
    /\ x_ret = PyNone
    /\ x_log = LogNone
    /\ m_pc = "new"
    /\ available \in SUBSET Libraries
    /\ parser_preference = "unset"
    /\ parser_type = "unset"
    /\ nSetup = 0
    /\ dispatched = [method |-> "none", markdown_text |-> ""]
    /\ h_pc = "off"
    /\ structure = << >>
    /\ current_section = PyNone
    /\ content_buffer = << >>
    /\ events = << >>

NextMapper ==
    \/ \E preference \in Preferences : Construct(preference)
    \/ \E t \in MarkdownTexts : ParseWithLibrary(t)

SpecMapper == InitMapper /\ [][NextMapper]_vars

----------------------------------------------------------------------------
(* Properties of HeaderParagraphMapper *)

\* the backend of highest priority among the libraries there
BestAvailable ==
    IF "markdown_analysis" \in available THEN "markdown_analysis"
    ELSE IF "mistune" \in available THEN "mistune"
    ELSE IF "markdown" \in available THEN "markdown"
    ELSE "none"

\* C28: a mapper constructed with 'auto' has called _setup_parser once and
\* stores as parser_type markdown_analysis if that library is there, else
\* mistune if it is there, else markdown if it is there; with none of them
\* the construction ends in an ImportError and no parser_type is stored.
\* No later step changes parser_type, and parse_with_library hands the text
\* to the method of the stored parser_type.
C28_BackendResolvedOnce ==
    /\ [](/\ nSetup <= 1
          /\ (m_pc # "new" /\ parser_preference = "auto") =>
                IF BestAvailable = "none"
                THEN m_pc = "ImportError" /\ parser_type = "unset"
                ELSE m_pc # "ImportError" /\ parser_type = BestAvailable
          /\ m_pc = "dispatched" =>
                dispatched.method =
                    IF parser_type \in Libraries THEN "_parse_with_" \o parser_type
                    ELSE "ValueError")
    /\ [][m_pc # "new" => (parser_type' = parser_type /\ nSetup' = nSetup)]_vars

C28_Witness ==
    /\ m_pc = "dispatched"
    /\ parser_preference = "auto"
    /\ available = {"mistune", "markdown"}
    /\ parser_type = "mistune"
    /\ dispatched.method = "_parse_with_mistune"
    /\ nSetup = 1

----------------------------------------------------------------------------
(* The HeaderExtractor renderer of _parse_with_mistune                     *)
(* (src/header_para_mapping.py)                                            *)

HeadingTexts == {"A", "B"}
HeadingLevels == {1, 2}
ParagraphTexts == {"p", "q"}

\* Heading that keeps the buffered paragraphs when no section is open
HeadingKeepsBuffer(text, level) ==
    /\ h_pc = "rendering"
    /\ Len(events) < MaxEvents
    /\ events' = Append(events, [kind |-> "heading", text |-> text, level |-> level])
    /\ structure' = IF current_section # PyNone
                    THEN Append(structure,
                                [current_section EXCEPT !.paragraphs = content_buffer])
                    ELSE structure
    /\ current_section' = [level |-> level, text |-> text, paragraphs |-> << >>]
    /\ content_buffer' = IF current_section # PyNone THEN << >> ELSE content_buffer
    /\ UNCHANGED h_pc
    /\ UNCHANGED << clientVars, remoteVars, parserVars, batchVars, fmtVars, concVars,
                    otherThanHdr >>

\* heading(text, level): the open section, if any, gets the buffered
\* paragraphs and goes into the structure; a new section is opened and the
\* buffer emptied
Heading(text, level) ==
    /\ h_pc = "rendering"
    /\ Len(events) < MaxEvents
    /\ events' = Append(events, [kind |-> "heading", text |-> text, level |-> level])
    /\ structure' = IF current_section # PyNone
                    THEN Append(structure,
                                [current_section EXCEPT !.paragraphs = content_buffer])
                    ELSE structure
    /\ current_section' = [level |-> level, text |-> text, paragraphs |-> << >>]
    /\ content_buffer' = << >>
    /\ UNCHANGED h_pc
    /\ UNCHANGED << clientVars, remoteVars, parserVars, batchVars, fmtVars, concVars,
                    otherThanHdr >>

\* paragraph(text): the text is appended to the buffer
Paragraph(text) ==
    /\ h_pc = "rendering"
    /\ Len(events) < MaxEvents
    /\ events' = Append(events, [kind |-> "paragraph", text |-> text])
    /\ content_buffer' = Append(content_buffer, text)
    /\ UNCHANGED << h_pc, structure, current_section >>
    /\ UNCHANGED << clientVars, remoteVars, parserVars, batchVars, fmtVars, concVars,
                    otherThanHdr >>

\* finalize(), called once after the parse: the open section, if any, gets
\* the buffered paragraphs and goes into the structure
Finalize ==
    /\ h_pc = "rendering"
    /\ h_pc' = "finalized"
    /\ structure' = IF current_section # PyNone
                    THEN Append(structure,
                                [current_section EXCEPT !.paragraphs = content_buffer])
                    ELSE structure
    /\ current_section' = IF current_section # PyNone
                          THEN [current_section EXCEPT !.paragraphs = content_buffer]
                          ELSE current_section
    /\ UNCHANGED << content_buffer, events >>
    /\ UNCHANGED << clientVars, remoteVars, parserVars, batchVars, fmtVars, concVars,
                    otherThanHdr >>

\* renderer = HeaderExtractor(), before the markdown parser calls it
InitHeaders ==
    /\ pc = "idle"
    /\ call = "none"
    /\ prompt = ""
    /\ use_async = FALSE
    /\ payload = NoPayload
    /\ output_location = PyNone
    /\ max_wait_time = 0
    /\ elapsed = 0
    /\ nAsync = 0
    /\ nSync = 0
    /\ nWait = 0
    /\ nPoll = 0
    /\ nSleep = 0
    /\ resp = RespNone
    /\ syncRet = PyNone
    /\ waitRet = PyNone
    /\ exit = "none"
    /\ log = LogNone
    /\ ret = PyNone
    /\ s3obj = Absent
    /\ jobAccepted = FALSE
    /\ prev = NoPrev
    /\ p_pc = "off"
    /\ p_arg = << >>
    /\ embedded = [kind |-> "none", obj |-> PyNone]
    /\ response = << >>
    /\ p_ret = PyNone
    /\ json_str = << >>
    /\ b_pc = "off"
    /\ prompts = << >>
    /\ b_use_async = FALSE
    /\ results = << >>
    /\ b_i = 0
    /\ nDelay = 0
    /\ f_pc = "off"
    /\ messages = << >>
    /\ formatted_prompt = ""
    /\ f_k = 0
    /\ fields = NoFields
    /\ thread = NoThreads
    /\ store = << >>
    /\ jobs = {}
    /\ x_pc = "off"
    /\ extractor = "none"
    /\ stages = << >>
    /\ llm_response = PyNone
    /\ parsed_data = PyNone
    /\ is_valid = FALSE
    /\ x_ret = PyNone
    /\ x_log = LogNone
    /\ m_pc = "off"
    /\ available = {}
    /\ parser_preference = "unset"
    /\ parser_type = "unset"
    /\ nSetup = 0
    /\ dispatched = [method |-> "none", markdown_text |-> ""]
    /\ h_pc = "rendering"
    /\ structure = << >>
    /\ current_section = PyNone
    /\ content_buffer = << >>
    /\ events = << >>

NextHeaders ==
    \/ \E text \in HeadingTexts, level \in HeadingLevels : Heading(text, level)
    \/ \E text \in ParagraphTexts : Paragraph(text)
    \/ Finalize

SpecHeaders == InitHeaders /\ [][NextHeaders]_vars

----------------------------------------------------------------------------
(* Properties of the HeaderExtractor *)

\* the positions of the heading events
HeadingEvents == {i \in 1..Len(events) : events[i].kind = "heading"}

\* the position of the k-th heading event
KthHeading(k) ==
    CHOOSE i \in HeadingEvents : Cardinality({j \in HeadingEvents : j < i}) = k - 1

\* the position after the last event that belongs to the k-th heading: the
\* next heading, or the end of the events
SectionEnd(k) ==
    IF k = Cardinality(HeadingEvents) THEN Len(events) + 1 ELSE KthHeading(k + 1)

\* C29: once finalize has run after the heading and paragraph events, the
\* structure has one section per heading event, in the order of the
\* events, with the heading's text and level; the paragraphs of a section
\* are the texts of the paragraph events between its heading and the next
\* heading, or the finalize, in their order; a paragraph event before the
\* first heading is in no section.
C29_SectionsFollowEvents ==
    h_pc = "finalized" =>
        /\ Len(structure) = Cardinality(HeadingEvents)
        /\ \A k \in 1..Len(structure) :
              LET i == KthHeading(k)
              IN  /\ structure[k].text = events[i].text
                  /\ structure[k].level = events[i].level
                  /\ structure[k].paragraphs =
                        [j \in 1..(SectionEnd(k) - i - 1) |-> events[i + j].text]

C29_Witness ==
    /\ h_pc = "finalized"
    /\ events = << [kind |-> "paragraph", text |-> "p"],
                   [kind |-> "heading", text |-> "A", level |-> 1],
                   [kind |-> "paragraph", text |-> "q"],
                   [kind |-> "heading", text |-> "A", level |-> 2] >>
    /\ structure = << [level |-> 1, text |-> "A", paragraphs |-> << "q" >>],
                      [level |-> 2, text |-> "A", paragraphs |-> << >>] >>

====
